---- MODULE Spec2Model ----
(***************************************************************************)
(* KXPA100 remote control (M5Stack, two FreeRTOS tasks).                   *)
(*                                                                         *)
(* backendTask (core 0) polls the amplifier and the CAT server and         *)
(* publishes into sharedState; loop() (core 1) reads sharedState, handles  *)
(* the three buttons and renders.  Both go through dataMutex, taken with a *)
(* 50 ms timeout.  Each step below is one stretch of code between two      *)
(* mutex operations; the line numbers are those of src/src/main.cpp.       *)
(*                                                                         *)
(* Left out: the power-off timer of loop() (410-439), which touches no     *)
(* shared state, and the poll-rate delay of backendTask (236-239).         *)
(***************************************************************************)
EXTENDS Integers, Sequences, FiniteSets, TLC

\* ------------------------------------------------------------------------
\* Program constants
\* ------------------------------------------------------------------------
MIN_POS == 0
MAX_POS == 10

\* CatWifiClient (main.cpp 752-755); CAT_MAX_RETRIES is
\* CatWifiClient::MAX_RETRIES.
CONNECT_TIMEOUT_MS == 2000
INITIAL_BACKOFF_MS == 500
MAX_BACKOFF_MS == 30000
CAT_MAX_RETRIES == 10
\* KXPA100Controller.cpp: MAX_RETRIES of setBand
KXPA_MAX_RETRIES == 3

\* ------------------------------------------------------------------------
\* Bounds of the model
\* ------------------------------------------------------------------------
\* The user steps the band selector only while it is within 0..MaxSel.
MaxSel == 1
\* Number of distinct telemetry readings the amplifier reports.
NumReadings == 2
\* Milliseconds by which millis() advances in one step of the clock.
TickMs == 500
\* Bytes the receive buffer of the serial port holds at most.
MaxRx == 2

\* ------------------------------------------------------------------------
\* KXPA100Controller: band table and the pure helpers the tasks call
\* ------------------------------------------------------------------------
_bandTable ==
  << [lowerFreq |-> 1800000,  upperFreq |-> 2000000,  name |-> "160m", bandCmd |-> "^BN00;", antennaCmd |-> "^AN1;"],
     [lowerFreq |-> 3500000,  upperFreq |-> 3800000,  name |-> "80m",  bandCmd |-> "^BN01;", antennaCmd |-> "^AN1;"],
     [lowerFreq |-> 5351500,  upperFreq |-> 5366500,  name |-> "60m",  bandCmd |-> "^BN02;", antennaCmd |-> "^AN1;"],
     [lowerFreq |-> 7000000,  upperFreq |-> 7200000,  name |-> "40m",  bandCmd |-> "^BN03;", antennaCmd |-> "^AN1;"],
     [lowerFreq |-> 10100000, upperFreq |-> 10150000, name |-> "30m",  bandCmd |-> "^BN04;", antennaCmd |-> "^AN1;"],
     [lowerFreq |-> 14000000, upperFreq |-> 14350000, name |-> "20m",  bandCmd |-> "^BN05;", antennaCmd |-> "^AN1;"],
     [lowerFreq |-> 18068000, upperFreq |-> 18168000, name |-> "17m",  bandCmd |-> "^BN06;", antennaCmd |-> "^AN1;"],
     [lowerFreq |-> 21000000, upperFreq |-> 21450000, name |-> "15m",  bandCmd |-> "^BN07;", antennaCmd |-> "^AN1;"],
     [lowerFreq |-> 24890000, upperFreq |-> 24990000, name |-> "12m",  bandCmd |-> "^BN08;", antennaCmd |-> "^AN1;"],
     [lowerFreq |-> 28000000, upperFreq |-> 29700000, name |-> "10m",  bandCmd |-> "^BN09;", antennaCmd |-> "^AN1;"],
     [lowerFreq |-> 50000000, upperFreq |-> 52000000, name |-> "6m",   bandCmd |-> "^BN10;", antennaCmd |-> "^AN2;"] >>

_bandCount_Short == Len(_bandTable) - 1

_bandCount == Len(_bandTable)

\* getBandName(index): table name, "Invalid" outside the table.
getBandName(index) ==
  IF index < 0 \/ index >= _bandCount THEN "Invalid" ELSE _bandTable[index + 1].name

getBandIndexByFrequency_Exclusive(freq) ==
  LET hits == { i \in 0..(Len(_bandTable) - 1) :
                  /\ freq > _bandTable[i + 1].lowerFreq
                  /\ freq < _bandTable[i + 1].upperFreq }
  IN  IF hits = {} THEN -1 ELSE CHOOSE i \in hits : \A j \in hits : i <= j

\* getBandIndexByFrequency(freq): first entry whose inclusive range holds
\* freq, -1 if none.  The parameter is a uint32_t: a negative long arrives as
\* freq + 2^32, which is at least 2^31 and so above every upperFreq.
getBandIndexByFrequency(freq) ==
  LET hits == { i \in 0..(_bandCount - 1) :
                  /\ freq >= 0
                  /\ freq >= _bandTable[i + 1].lowerFreq
                  /\ freq <= _bandTable[i + 1].upperFreq }
  IN  IF hits = {} THEN -1 ELSE CHOOSE i \in hits : \A j \in hits : i <= j

\* Arduino String::toInt() (atol): leading blanks, an optional sign, then
\* decimal digits up to the first other character; 0 if there are none.
\* A string is a sequence of one-character strings.
Digits == <<"0", "1", "2", "3", "4", "5", "6", "7", "8", "9">>

DigitVal(c) == (CHOOSE k \in 1..10 : Digits[k] = c) - 1

IsDigit(c) == \E k \in 1..10 : Digits[k] = c

IsSpace(c) == c \in {" ", "\n", "\r", "\t"}

RECURSIVE SkipSpace(_)
SkipSpace(s) == IF s # <<>> /\ IsSpace(Head(s)) THEN SkipSpace(Tail(s)) ELSE s

RECURSIVE ParseDigits(_, _)
ParseDigits(s, acc) ==
  IF s # <<>> /\ IsDigit(Head(s))
    THEN ParseDigits(Tail(s), acc * 10 + DigitVal(Head(s)))
    ELSE acc

toInt(str) ==
  LET s == SkipSpace(str)
  IN  IF s = <<>> THEN 0
      ELSE IF Head(s) = "-" THEN 0 - ParseDigits(Tail(s), 0)
      ELSE IF Head(s) = "+" THEN ParseDigits(Tail(s), 0)
      ELSE ParseDigits(s, 0)

\* ------------------------------------------------------------------------
\* CatWifiClient: pure helpers
\* ------------------------------------------------------------------------
Min(a, b) == IF a < b THEN a ELSE b

_getBackoffDelay_NoCeiling(retryCount) ==
  INITIAL_BACKOFF_MS * (2 ^ Min(retryCount, 6))

\* 775-779.  The uint16_t constant is promoted to int (32 bits) before the
\* multiplication; the largest product is 500 * 64.
_getBackoffDelay(retryCount) ==
  Min(INITIAL_BACKOFF_MS * (2 ^ Min(retryCount, 6)), MAX_BACKOFF_MS)

Bumped_NoCap(retryCount) == retryCount + 1

\* 690-695: _retryCount++, then capped at MAX_RETRIES.
Bumped(retryCount) ==
  IF retryCount + 1 >= CAT_MAX_RETRIES THEN CAT_MAX_RETRIES ELSE retryCount + 1

\* The time since _lastConnectAttempt is followed up to the largest delay
\* it is ever compared with.
MaxElapsed == MAX_BACKOFF_MS

\* The object after its constructor (637-640).  sinceAttempt is
\* millis() - _lastConnectAttempt, wifi is WiFi.status() == WL_CONNECTED,
\* sock is _socket.connected(); pc is the position of update(), sw the state
\* its switch read and elapsed the value of now - _lastConnectAttempt for
\* the now read at 670.  rx holds the bytes _socket.available() reports,
\* sent counts the commands the latest sendCommand call has printed to the
\* socket, before holds the bytes that were available when it printed, and
\* result is the value it returned.
CatInit ==
  [_socketState |-> "DISCONNECTED", _retryCount |-> 0, sinceAttempt |-> 0,
   wifi |-> FALSE, sock |-> FALSE,
   pc |-> "idle", sw |-> "DISCONNECTED", elapsed |-> 0,
   rx |-> <<>>, sent |-> 0, before |-> <<>>, result |-> <<>>]

\* The controller between two calls: method, idx and freq are the latest
\* call and its argument, attempt the passes of setBand's loop completed, tx
\* the commands written to the port during the call, resp the latest
\* response txRx returned, band and text the latest int and String result.
\* rxbuf is the port's receive buffer (empty after begin(), readme.md
\* 1085-1088) and port says whether the port is usable; of the latest call
\* of txRx, wrote says whether the command was written whole, drained
\* whether it discarded bytes, consumed how many bytes its read took, and
\* atCall and early how many bytes at the head of rxbuf were buffered when
\* the call began and when the command was written.
KxpaInit ==
  [pc |-> "idle", method |-> "", idx |-> 0, freq |-> 0, attempt |-> 0,
   tx |-> <<>>, resp |-> <<>>, band |-> -1, text |-> <<>>,
   device |-> "any", ampBand |-> 0,
   rxbuf |-> <<>>, port |-> TRUE, wrote |-> FALSE, drained |-> FALSE,
   consumed |-> 0, atCall |-> 0, early |-> 0]

\* ------------------------------------------------------------------------
\* Inputs of the environment
\* ------------------------------------------------------------------------
\* Answers of cat.sendCommand("f\n"): none within the timeout, the line
\* rigctld sends for a frequency in the 40m band, for one in the 20m band,
\* and its error report.
NoAnswer == <<>>

Freq40m == <<"7", "1", "0", "0", "0", "0", "0", "\n">>

Freq20m == <<"1", "4", "2", "5", "0", "0", "0", "0", "\n">>

RigError == <<"R", "P", "R", "T", " ", "-", "1", "\n">>

\* The seven telemetry strings of sharedState.
TelFields == {"power", "temp", "swr", "antenna", "mode", "faults", "voltage"}

PowerReadings == <<"75", "50", "ERR", "0">>
SwrReadings == <<"1.5", "1.5", "1.2", "0.0">>

\* The i-th reading of a connected amplifier (getPower() .. getVoltage()).
Reading(i) ==
  [power |-> PowerReadings[i], temp |-> "45", swr |-> SwrReadings[i],
   antenna |-> "^AN1", mode |-> "Automatic", faults |-> "00", voltage |-> "13.5"]

Readings == { Reading(i) : i \in 1..NumReadings }

\* The inputs the environment presents in a behaviour: what
\* checkConnection() (kx) and cat.isConnected() (ct) return, what getBand()
\* returns to the poll (polled), the telemetry getters' results (readings),
\* the answers of cat.sendCommand (resp), and the selector positions at
\* which the user steps the selector: those up to sel (-1: none) and those
\* from top on (MAX_POS + 1: none); elsewhere the user only confirms.
\* EnvManual is the manual-override scenario, EnvTelemetry the telemetry
\* scenario.
EnvManual ==
  [kx |-> {TRUE}, ct |-> BOOLEAN, polled |-> {5}, readings |-> {Reading(1)},
   resp |-> {Freq40m}, sel |-> MaxSel, top |-> MAX_POS + 1]

EnvTelemetry ==
  [kx |-> {TRUE}, ct |-> {FALSE}, polled |-> {5}, readings |-> Readings,
   resp |-> {NoAnswer}, sel |-> -1, top |-> MAX_POS + 1]

\* The range scenario: the amplifier reports its last band
\* or fails to report, the CAT link comes and goes, and the user steps the
\* selector at its lowest position and from env.top upwards.
EnvRange ==
  [kx |-> {TRUE}, ct |-> BOOLEAN, polled |-> {-1, 10},
   readings |-> {Reading(1)}, resp |-> {Freq40m}, sel |-> 0, top |-> MAX_POS]

\* The request scenario: the amplifier is on 20m, the CAT link is down and
\* the user confirms the band shown.
EnvRequest ==
  [kx |-> {TRUE}, ct |-> {FALSE}, polled |-> {5}, readings |-> {Reading(1)},
   resp |-> {NoAnswer}, sel |-> -1, top |-> MAX_POS + 1]

\* The automatic scenario: the CAT link is up, the amplifier reports 20m or
\* fails to report, and the rig answers in every way.
EnvAuto ==
  [kx |-> {TRUE}, ct |-> {TRUE}, polled |-> {-1, 5}, readings |-> {Reading(1)},
   resp |-> {NoAnswer, Freq40m, Freq20m, RigError}, sel |-> -1, top |-> MAX_POS + 1]

\* The p_* Strings as declared: empty until a getter assigns them.
EmptyTel ==
  [power |-> "", temp |-> "", swr |-> "", antenna |-> "", mode |-> "",
   faults |-> "", voltage |-> ""]

\* ------------------------------------------------------------------------
\* State
\* ------------------------------------------------------------------------
VARIABLES
  sharedState,      \* struct SharedData
  dataMutex,        \* the set of tasks holding the mutex
  env,              \* the inputs of the environment (constant in a behaviour)
  pcB,              \* backendTask: position
  currentBandIdx,   \* backendTask locals
  manualReq,
  target,
  justSwitched,
  p_bandName,
  p_tel,
  kxpaOk,
  newBand,
  catOk,
  freqStr,
  cycleOps,         \* calls on kxpa/cat made in the current polling cycle
  pcU,              \* loop(): position
  ui,               \* loop(): the UI globals and the locals of an iteration
  reqFresh,         \* history: a request was posted and not claimed since
  claimFresh,       \* history: the claimed request had not been claimed before
  cat,              \* the CatWifiClient object and its surroundings
  kxpa              \* the KXPA100Controller object and its serial port

backendVars == <<pcB, currentBandIdx, manualReq, target, justSwitched,
                 p_bandName, p_tel, kxpaOk, newBand, catOk, freqStr, cycleOps>>

uiVars == <<pcU, ui>>

histVars == <<reqFresh, claimFresh>>

taskVars == <<sharedState, dataMutex, backendVars, uiVars, histVars>>

vars == <<env, taskVars, cat, kxpa>>

\* SharedData's member initialisers (main.cpp 75-103).
SharedInit ==
  [bandIndex |-> 0, bandName |-> "", power |-> "0", temp |-> "0", swr |-> "1.0",
   antenna |-> "", mode |-> "", faults |-> "", voltage |-> "",
   catConnected |-> FALSE, kxpaConnected |-> FALSE,
   manualChangeReq |-> FALSE, manualTargetBand |-> 0,
   bandDirty |-> TRUE, powerDirty |-> TRUE, tempDirty |-> TRUE, swrDirty |-> TRUE,
   antennaDirty |-> TRUE, modeDirty |-> TRUE, faultsDirty |-> TRUE,
   voltageDirty |-> TRUE, connectionDirty |-> TRUE]

\* The telemetry part of a SharedData value.
TelOf(ss) ==
  [power |-> ss.power, temp |-> ss.temp, swr |-> ss.swr, antenna |-> ss.antenna,
   mode |-> ss.mode, faults |-> ss.faults, voltage |-> ss.voltage]

\* The dirty flag that goes with a telemetry field.
DirtyOf(ss, f) ==
  CASE f = "power"   -> ss.powerDirty
    [] f = "temp"    -> ss.tempDirty
    [] f = "swr"     -> ss.swrDirty
    [] f = "antenna" -> ss.antennaDirty
    [] f = "mode"    -> ss.modeDirty
    [] f = "faults"  -> ss.faultsDirty
    [] f = "voltage" -> ss.voltageDirty

\* The UI globals after setup() (118-122, 217) and loop()'s locals as
\* declared (380-384, 447).  timerDisplayZero stands for timerDisplay == 0.
UiInit ==
  [uiBandCounter |-> 0, uiUpdatingBand |-> FALSE, timerDisplayZero |-> FALSE,
   s_kxpaConn |-> FALSE, s_catConn |-> FALSE, s_bandIdx |-> 0, s_bandName |-> "",
   s_tel |-> EmptyTel, anyDirty |-> FALSE, manualAction |-> FALSE,
   forceUpdate |-> FALSE]

TaskInit ==
  /\ sharedState = SharedInit
  /\ dataMutex = {}
  /\ pcB = "b_take1"
  /\ currentBandIdx = 0
  /\ manualReq = FALSE
  /\ target = 0
  /\ justSwitched = FALSE
  /\ p_bandName = ""
  /\ p_tel = EmptyTel
  /\ kxpaOk = FALSE
  /\ newBand = -1
  /\ catOk = FALSE
  /\ freqStr = <<>>
  /\ cycleOps = <<>>
  /\ pcU = "u_take1"
  /\ ui = UiInit
  /\ reqFresh = FALSE
  /\ claimFresh = FALSE

Init0 == TaskInit /\ cat = CatInit /\ kxpa = KxpaInit

Init == Init0 /\ env = EnvManual

InitTelemetry == Init0 /\ env = EnvTelemetry

InitAuto == Init0 /\ env = EnvAuto

InitRange == Init0 /\ env = EnvRange

InitRequest == Init0 /\ env = EnvRequest

\* ------------------------------------------------------------------------
\* dataMutex
\* ------------------------------------------------------------------------
\* xSemaphoreTake succeeds when no task holds the mutex.
CanTake(task) == dataMutex = {}

\* xSemaphoreTake returns pdFALSE when another task held it for the 50 ms.
TimesOut(task) == dataMutex # {} /\ task \notin dataMutex

\* ------------------------------------------------------------------------
\* backendTask (core 0)
\* ------------------------------------------------------------------------
Op(name, arg) == [op |-> name, arg |-> arg]

\* The locals of one polling cycle as declared (243-267); newBand (281) and
\* freqStr (301) hold -1 and "" while they are out of scope.
BackendLocalsReset ==
  /\ manualReq' = FALSE
  /\ target' = 0
  /\ justSwitched' = FALSE
  /\ p_bandName' = ""
  /\ p_tel' = EmptyTel
  /\ kxpaOk' = FALSE
  /\ newBand' = -1
  /\ catOk' = FALSE
  /\ freqStr' = <<>>
  /\ cycleOps' = <<>>
  /\ claimFresh' = FALSE

DoPoll_Always(kx, js) == kx

\* 279-280: the band is polled if the amplifier answers and the cycle has
\* not just switched it.
DoPoll(kx, js) == kx /\ ~js

\* 300: the frequency is queried if the CAT link is up and no override was
\* claimed in this cycle.
DoCat(ct, mReq) == ct /\ ~mReq

ShouldSet_NoCompare(newIdx, cur) == newIdx >= MIN_POS /\ newIdx <= MAX_POS

\* 306: the frequency-derived band is applied if it is a selector position
\* and not the band the cycle tracks.
ShouldSet(newIdx, cur) ==
  newIdx >= MIN_POS /\ newIdx <= MAX_POS /\ newIdx # cur

\* 267-312: the serial and network exchanges of one cycle, for the request
\* claimed (mReq, tgt).  kx is what checkConnection() returns, polled what
\* getBand() returns, r the telemetry getters' results, ct what
\* cat.isConnected() returns, resp the answer of cat.sendCommand.
Exchanges(mReq, tgt) ==
  /\ \E kx \in env.kx, polled \in env.polled, r \in env.readings,
        ct \in env.ct, resp \in env.resp :
       LET \* 269-274
           ops1  == IF mReq THEN <<Op("setBand", tgt)>> ELSE <<>>
           cur1  == IF mReq THEN tgt ELSE currentBandIdx
           name1 == IF mReq THEN getBandName(tgt) ELSE ""
           js    == mReq
           \* 277-296
           doPoll == DoPoll(kx, js)
           ops2  == ops1 \o <<Op("checkConnection", -1)>>
                      \o (IF doPoll THEN <<Op("getBand", -1)>> ELSE <<>>)
                      \o (IF kx THEN <<Op("telemetry", -1)>> ELSE <<>>)
           cur2  == IF doPoll /\ polled >= 0 THEN polled ELSE cur1
           name2 == IF doPoll /\ polled >= 0 THEN getBandName(polled) ELSE name1
           \* 299-312
           doCat  == DoCat(ct, mReq)
           freq   == toInt(resp)
           newIdx == getBandIndexByFrequency(freq)
           doSet  == /\ doCat
                     /\ Len(resp) > 0
                     /\ ShouldSet(newIdx, cur2)
           ops3  == ops2 \o <<Op("isConnected", -1)>>
                      \o (IF doCat THEN <<Op("sendCommand", -1)>> ELSE <<>>)
                      \o (IF doSet THEN <<Op("setBand", newIdx)>> ELSE <<>>)
       IN  /\ justSwitched' = js
           /\ kxpaOk' = kx
           /\ newBand' = IF doPoll THEN polled ELSE -1
           /\ freqStr' = IF doCat THEN resp ELSE <<>>
           /\ p_tel' = IF kx THEN r ELSE EmptyTel
           /\ catOk' = ct
           /\ currentBandIdx' = IF doSet THEN newIdx ELSE cur2
           /\ p_bandName' = IF doSet THEN getBandName(newIdx) ELSE name2
           /\ cycleOps' = ops3
  /\ manualReq' = mReq
  /\ target' = tgt
  /\ pcB' = "b_take2"

\* 246: xSemaphoreTake before the claim; on a timeout the claim is skipped
\* and the cycle goes on with manualReq = false (243-244, 267-312).
BTake1 ==
  /\ UNCHANGED <<env, cat, kxpa>>
  /\ pcB = "b_take1"
  /\ \/ /\ CanTake("backend")
        /\ dataMutex' = {"backend"}
        /\ pcB' = "b_claim"
        /\ UNCHANGED <<currentBandIdx, manualReq, target, justSwitched,
                       p_bandName, p_tel, kxpaOk, newBand, catOk, freqStr,
                       cycleOps>>
     \/ /\ TimesOut("backend")
        /\ dataMutex' = dataMutex
        /\ Exchanges(FALSE, 0)
  /\ UNCHANGED <<sharedState, uiVars, histVars>>

Claimed_NoClear(ss) == ss

\* 250: the claim clears the flag.
Claimed(ss) == [ss EXCEPT !.manualChangeReq = FALSE]

\* 247-252: read the request and clear the flag, give the mutex; then the
\* cycle's exchanges (267-312).
BClaim ==
  /\ UNCHANGED <<env, cat, kxpa>>
  /\ pcB = "b_claim"
  /\ IF sharedState.manualChangeReq
       THEN /\ sharedState' = Claimed(sharedState)
            /\ claimFresh' = reqFresh
            /\ reqFresh' = FALSE
            /\ Exchanges(TRUE, sharedState.manualTargetBand)
       ELSE /\ UNCHANGED <<sharedState, claimFresh, reqFresh>>
            /\ Exchanges(FALSE, 0)
  /\ dataMutex' = dataMutex \ {"backend"}
  /\ UNCHANGED uiVars

\* 315: xSemaphoreTake before the publish; on a timeout nothing is published
\* and the cycle ends (368).
BTake2 ==
  /\ UNCHANGED <<env, cat, kxpa>>
  /\ pcB = "b_take2"
  /\ \/ /\ CanTake("backend")
        /\ dataMutex' = {"backend"}
        /\ pcB' = "b_publish"
        /\ UNCHANGED <<manualReq, target, justSwitched, p_bandName, p_tel,
                       kxpaOk, newBand, catOk, freqStr, cycleOps, claimFresh>>
     \/ /\ TimesOut("backend")
        /\ dataMutex' = dataMutex
        /\ pcB' = "b_take1"
        /\ BackendLocalsReset
  /\ UNCHANGED <<sharedState, currentBandIdx, uiVars, reqFresh>>

BandChanged_NoRecheck(ss) ==
  ss.bandIndex # currentBandIdx \/ ss.bandName # p_bandName

\* 323-324: the band fields are written if no request is pending and the
\* cycle's band differs from the stored one.
BandChanged(ss) ==
  /\ ~ss.manualChangeReq
  /\ (ss.bandIndex # currentBandIdx \/ ss.bandName # p_bandName)

Changed_Always(stored, new) == TRUE

\* 332, 336, ..., 356: a telemetry field is written if the new value differs.
Changed(stored, new) == stored # new

ConnChanged_IfNoRequest(ss) ==
  /\ ~ss.manualChangeReq
  /\ (ss.kxpaConnected # kxpaOk) \/ (ss.catConnected # catOk)

\* 316-317: one of the two connection flags differs from the stored one.
ConnChanged(ss) == (ss.kxpaConnected # kxpaOk) \/ (ss.catConnected # catOk)

\* 316-363: the values sharedState holds after the publish.
Published(ss) ==
  LET connChanged == ConnChanged(ss)
      bandChanged == BandChanged(ss)
  IN  [ss EXCEPT
         !.kxpaConnected = kxpaOk,
         !.catConnected = catOk,
         !.bandIndex = IF bandChanged THEN currentBandIdx ELSE @,
         !.bandName = IF bandChanged THEN p_bandName ELSE @,
         !.bandDirty = IF bandChanged THEN TRUE ELSE @,
         !.power = IF Changed(ss.power, p_tel.power) THEN p_tel.power ELSE @,
         !.powerDirty = IF Changed(ss.power, p_tel.power) THEN TRUE ELSE @,
         !.temp = IF Changed(ss.temp, p_tel.temp) THEN p_tel.temp ELSE @,
         !.tempDirty = IF Changed(ss.temp, p_tel.temp) THEN TRUE ELSE @,
         !.swr = IF Changed(ss.swr, p_tel.swr) THEN p_tel.swr ELSE @,
         !.swrDirty = IF Changed(ss.swr, p_tel.swr) THEN TRUE ELSE @,
         !.antenna = IF Changed(ss.antenna, p_tel.antenna) THEN p_tel.antenna ELSE @,
         !.antennaDirty = IF Changed(ss.antenna, p_tel.antenna) THEN TRUE ELSE @,
         !.mode = IF Changed(ss.mode, p_tel.mode) THEN p_tel.mode ELSE @,
         !.modeDirty = IF Changed(ss.mode, p_tel.mode) THEN TRUE ELSE @,
         !.faults = IF Changed(ss.faults, p_tel.faults) THEN p_tel.faults ELSE @,
         !.faultsDirty = IF Changed(ss.faults, p_tel.faults) THEN TRUE ELSE @,
         !.voltage = IF Changed(ss.voltage, p_tel.voltage) THEN p_tel.voltage ELSE @,
         !.voltageDirty = IF Changed(ss.voltage, p_tel.voltage) THEN TRUE ELSE @,
         !.connectionDirty = IF connChanged THEN TRUE ELSE @]

\* 316-363: publish under the mutex.
BPublish ==
  /\ UNCHANGED <<env, cat, kxpa>>
  /\ pcB = "b_publish"
  /\ sharedState' = Published(sharedState)
  /\ pcB' = "b_published"
  /\ UNCHANGED <<dataMutex, currentBandIdx, manualReq, target, justSwitched,
                 p_bandName, p_tel, kxpaOk, newBand, catOk, freqStr, cycleOps,
                 uiVars, histVars>>

\* 365-368: give the mutex; the cycle's locals go out of scope.
BGive2 ==
  /\ UNCHANGED <<env, cat, kxpa>>
  /\ pcB = "b_published"
  /\ dataMutex' = dataMutex \ {"backend"}
  /\ pcB' = "b_take1"
  /\ BackendLocalsReset
  /\ UNCHANGED <<sharedState, currentBandIdx, uiVars, reqFresh>>

BackendStep == BTake1 \/ BClaim \/ BTake2 \/ BPublish \/ BGive2

\* ------------------------------------------------------------------------
\* loop() (core 1)
\* ------------------------------------------------------------------------
\* 380-384, 447, 500: the locals as declared; the globals are kept.
Declared(u) ==
  [u EXCEPT !.s_kxpaConn = FALSE, !.s_catConn = FALSE, !.s_bandIdx = 0,
            !.s_bandName = "", !.s_tel = EmptyTel, !.anyDirty = FALSE,
            !.manualAction = FALSE, !.forceUpdate = FALSE]

\* 388-405: the snapshot read.
Snapshot(u, ss) ==
  [u EXCEPT !.s_kxpaConn = ss.kxpaConnected,
            !.s_catConn = ss.catConnected,
            !.s_bandIdx = ss.bandIndex,
            !.s_bandName = ss.bandName,
            !.s_tel = TelOf(ss),
            !.anyDirty = (\/ ss.bandDirty \/ ss.powerDirty \/ ss.tempDirty
                          \/ ss.swrDirty \/ ss.antennaDirty \/ ss.modeDirty
                          \/ ss.faultsDirty \/ ss.voltageDirty
                          \/ ss.connectionDirty)]

\* 442-444: resynchronise the selector unless the user is stepping it.
Sync(u) ==
  [u EXCEPT !.uiBandCounter = IF ~u.uiUpdatingBand THEN u.s_bandIdx ELSE @]

PressA_NoClamp(u) ==
  [u EXCEPT !.uiBandCounter = @ + 1, !.manualAction = TRUE]

\* 451-459: BtnA triggers (an edge, or held past the repeat timer).
PressA(u) ==
  [u EXCEPT !.uiBandCounter = IF @ < MAX_POS THEN @ + 1 ELSE @,
            !.manualAction = TRUE]

\* 462-470: BtnC triggers.
PressC(u) ==
  [u EXCEPT !.uiBandCounter = IF @ > MIN_POS THEN @ - 1 ELSE @,
            !.manualAction = TRUE]

\* 486-490: what follows the post attempt, whether or not it got the mutex.
Confirmed(u) ==
  [u EXCEPT !.s_bandIdx = u.uiBandCounter,
            !.s_bandName = getBandName(u.uiBandCounter),
            !.uiUpdatingBand = FALSE,
            !.timerDisplayZero = TRUE]

\* 494-497.
Manual(u) ==
  IF u.manualAction
    THEN [u EXCEPT !.uiUpdatingBand = TRUE, !.timerDisplayZero = TRUE]
    ELSE u

\* 494-505, 556: decide whether to render.  elapsed says whether more than
\* DISPLAY_UPDATE_MS have passed since timerDisplay.  Without a render the
\* iteration ends.
Display(u) ==
  \E elapsed \in BOOLEAN :
    LET m == Manual(u)
        f == [m EXCEPT !.forceUpdate = elapsed \/ m.timerDisplayZero]
    IN  IF f.forceUpdate \/ f.anyDirty
          THEN /\ ui' = [f EXCEPT !.timerDisplayZero = FALSE]
               /\ pcU' = IF ~f.s_kxpaConn THEN "u_noKxpa" ELSE "u_take4"
          ELSE /\ ui' = Declared(f)
               /\ pcU' = "u_take1"

\* 441-473: resynchronise, then the buttons.  a, c and b say whether BtnA,
\* BtnC and BtnB trigger in this iteration.
Buttons(u) ==
  LET u0 == Sync(u)
  IN  IF u0.s_catConn
        THEN Display(u0)
        ELSE \E a \in {FALSE} \cup (IF \/ u0.uiBandCounter < env.sel
                                        \/ u0.uiBandCounter >= env.top
                                       THEN {TRUE} ELSE {}),
                c \in {FALSE} \cup (IF \/ u0.uiBandCounter <= env.sel
                                        \/ u0.uiBandCounter >= env.top
                                       THEN {TRUE} ELSE {}),
                b \in BOOLEAN :
               LET u1 == IF a THEN PressA(u0) ELSE u0
                   u2 == IF c THEN PressC(u1) ELSE u1
               IN  IF b THEN ui' = u2 /\ pcU' = "u_takeB"
                        ELSE Display(u2)

UTake1_IgnoresTimeout ==
  /\ UNCHANGED <<env, cat, kxpa>>
  /\ pcU = "u_take1"
  /\ dataMutex' = IF CanTake("ui") THEN {"ui"} ELSE dataMutex
  /\ pcU' = "u_snap"
  /\ ui' = ui
  /\ UNCHANGED <<sharedState, backendVars, histVars>>

\* 387: xSemaphoreTake before the snapshot read; on a timeout the locals
\* keep the values they were declared with and the iteration goes on (410-505).
UTake1 ==
  /\ UNCHANGED <<env, cat, kxpa>>
  /\ pcU = "u_take1"
  /\ \/ /\ CanTake("ui")
        /\ dataMutex' = {"ui"}
        /\ pcU' = "u_snap"
        /\ ui' = ui
     \/ /\ TimesOut("ui")
        /\ dataMutex' = dataMutex
        /\ Buttons(Declared(ui))
  /\ UNCHANGED <<sharedState, backendVars, histVars>>

\* 388-407: copy sharedState into the locals, give the mutex; then the
\* iteration goes on (410-505).
USnap ==
  /\ UNCHANGED <<env, cat, kxpa>>
  /\ pcU = "u_snap"
  /\ dataMutex' = dataMutex \ {"ui"}
  /\ Buttons(Snapshot(ui, sharedState))
  /\ UNCHANGED <<sharedState, backendVars, histVars>>

\* 474: xSemaphoreTake before the post; on a timeout nothing is posted.
UTakeB ==
  /\ UNCHANGED <<env, cat, kxpa>>
  /\ pcU = "u_takeB"
  /\ \/ /\ CanTake("ui")
        /\ dataMutex' = {"ui"}
        /\ pcU' = "u_post"
        /\ ui' = ui
     \/ /\ TimesOut("ui")
        /\ dataMutex' = dataMutex
        /\ Display(Confirmed(ui))
  /\ UNCHANGED <<sharedState, backendVars, histVars>>

Posted_RequestOnly(ss, counter) ==
  [ss EXCEPT !.manualTargetBand = counter,
             !.manualChangeReq = TRUE,
             !.bandDirty = TRUE]

\* 475-481: the request and the optimistic band fields.
Posted(ss, counter) ==
  [ss EXCEPT !.manualTargetBand = counter,
             !.manualChangeReq = TRUE,
             !.bandIndex = counter,
             !.bandName = getBandName(counter),
             !.bandDirty = TRUE]

\* 475-505: post under the mutex, give it, then the local follow-up.
UPost ==
  /\ UNCHANGED <<env, cat, kxpa>>
  /\ pcU = "u_post"
  /\ sharedState' = Posted(sharedState, ui.uiBandCounter)
  /\ reqFresh' = TRUE
  /\ dataMutex' = dataMutex \ {"ui"}
  /\ Display(Confirmed(ui))
  /\ UNCHANGED <<backendVars, claimFresh>>

\* 506-512, 516: draw "No KXPA100" and the blank panels, then
\* xSemaphoreTake; return on a timeout.
UNoKxpa ==
  /\ UNCHANGED <<env, cat, kxpa>>
  /\ pcU = "u_noKxpa"
  /\ \/ /\ CanTake("ui")
        /\ dataMutex' = {"ui"}
        /\ pcU' = "u_clearConn"
        /\ ui' = ui
     \/ /\ TimesOut("ui")
        /\ dataMutex' = dataMutex
        /\ pcU' = "u_take1"
        /\ ui' = Declared(ui)
  /\ UNCHANGED <<sharedState, backendVars, histVars>>

UClearConn_KeepsMutex ==
  /\ UNCHANGED <<env, cat, kxpa>>
  /\ pcU = "u_clearConn"
  /\ sharedState' = [sharedState EXCEPT !.connectionDirty = FALSE]
  /\ dataMutex' = dataMutex
  /\ pcU' = "u_take1"
  /\ ui' = Declared(ui)
  /\ UNCHANGED <<backendVars, histVars>>

\* 513-516: clear connectionDirty, give the mutex, return.
UClearConn ==
  /\ UNCHANGED <<env, cat, kxpa>>
  /\ pcU = "u_clearConn"
  /\ sharedState' = [sharedState EXCEPT !.connectionDirty = FALSE]
  /\ dataMutex' = dataMutex \ {"ui"}
  /\ pcU' = "u_take1"
  /\ ui' = Declared(ui)
  /\ UNCHANGED <<backendVars, histVars>>

\* 520: xSemaphoreTake before the status line; skipped on a timeout.
UTake4 ==
  /\ UNCHANGED <<env, cat, kxpa>>
  /\ pcU = "u_take4"
  /\ \/ /\ CanTake("ui")
        /\ dataMutex' = {"ui"}
        /\ pcU' = "u_status"
     \/ /\ TimesOut("ui")
        /\ dataMutex' = dataMutex
        /\ pcU' = "u_draw"
  /\ UNCHANGED <<sharedState, backendVars, histVars, ui>>

\* 521: the status line and the button bar are drawn in this critical section.
DrawsStatus == sharedState.connectionDirty \/ ui.forceUpdate

\* 521-536: draw the status line and button bar if due, clear
\* connectionDirty, give the mutex.
UStatus ==
  /\ UNCHANGED <<env, cat, kxpa>>
  /\ pcU = "u_status"
  /\ sharedState' = IF DrawsStatus
                      THEN [sharedState EXCEPT !.connectionDirty = FALSE]
                      ELSE sharedState
  /\ dataMutex' = dataMutex \ {"ui"}
  /\ pcU' = "u_draw"
  /\ UNCHANGED <<backendVars, histVars, ui>>

\* 539-545, 556: drawLeftSprite and drawRightSprite from the locals, then
\* xSemaphoreTake; on a timeout the flags stay and the iteration ends.
UDraw ==
  /\ UNCHANGED <<env, cat, kxpa>>
  /\ pcU = "u_draw"
  /\ \/ /\ CanTake("ui")
        /\ dataMutex' = {"ui"}
        /\ pcU' = "u_clearAll"
        /\ ui' = ui
     \/ /\ TimesOut("ui")
        /\ dataMutex' = dataMutex
        /\ pcU' = "u_take1"
        /\ ui' = Declared(ui)
  /\ UNCHANGED <<sharedState, backendVars, histVars>>

Cleared_AlsoRequest(ss) ==
  [ss EXCEPT !.bandDirty = FALSE, !.powerDirty = FALSE, !.tempDirty = FALSE,
             !.swrDirty = FALSE, !.antennaDirty = FALSE, !.modeDirty = FALSE,
             !.faultsDirty = FALSE, !.voltageDirty = FALSE,
             !.manualChangeReq = FALSE]

\* 546-553: the eight per-field flags cleared.
Cleared(ss) ==
  [ss EXCEPT !.bandDirty = FALSE, !.powerDirty = FALSE, !.tempDirty = FALSE,
             !.swrDirty = FALSE, !.antennaDirty = FALSE, !.modeDirty = FALSE,
             !.faultsDirty = FALSE, !.voltageDirty = FALSE]

\* 546-556: clear the flags, give the mutex, end of the iteration.
UClearAll ==
  /\ UNCHANGED <<env, cat, kxpa>>
  /\ pcU = "u_clearAll"
  /\ sharedState' = Cleared(sharedState)
  /\ dataMutex' = dataMutex \ {"ui"}
  /\ pcU' = "u_take1"
  /\ ui' = Declared(ui)
  /\ UNCHANGED <<backendVars, histVars>>

UIStep ==
  \/ UTake1 \/ USnap \/ UTakeB \/ UPost \/ UNoKxpa \/ UClearConn
  \/ UTake4 \/ UStatus \/ UDraw \/ UClearAll

Next == BackendStep \/ UIStep

\* ------------------------------------------------------------------------
\* CatWifiClient: the WiFi event callback and update()
\* ------------------------------------------------------------------------
\* millis() advances.
CatTick ==
  /\ cat.sinceAttempt < MaxElapsed
  /\ cat' = [cat EXCEPT !.sinceAttempt = Min(@ + TickMs, MaxElapsed)]
  /\ UNCHANGED <<env, taskVars, kxpa>>

\* 653-657: ARDUINO_EVENT_WIFI_STA_GOT_IP, delivered on the event task.
GotIp ==
  /\ cat' = [cat EXCEPT !.wifi = TRUE, !._socketState = "READY_TO_CONNECT"]
  /\ UNCHANGED <<env, taskVars, kxpa>>

\* 659-663: ARDUINO_EVENT_WIFI_STA_DISCONNECTED, delivered on the event task.
StaDisconnected ==
  /\ cat.wifi
  /\ cat' = [cat EXCEPT !.wifi = FALSE, !._socketState = "DISCONNECTED"]
  /\ UNCHANGED <<env, taskVars, kxpa>>

\* The peer or the network drops the socket.
SocketDrop ==
  /\ cat.sock
  /\ cat' = [cat EXCEPT !.sock = FALSE]
  /\ UNCHANGED <<env, taskVars, kxpa>>

\* 670-672: update() reads millis() and the state its switch selects on.
UpdateEnter ==
  /\ cat.pc = "idle"
  /\ cat' = [cat EXCEPT !.pc = "switch", !.sw = cat._socketState,
                        !.elapsed = cat.sinceAttempt]
  /\ UNCHANGED <<env, taskVars, kxpa>>

BackoffElapsed_Always(c) == TRUE

\* 675: the backoff has elapsed.
BackoffElapsed(c) == c.elapsed >= _getBackoffDelay(c._retryCount)

\* 768-773: _attemptSocketConnect; ok says whether the connect succeeds.
Attempted(c, ok) ==
  [c EXCEPT !.sock = ok, !._socketState = "CONNECTING", !.sinceAttempt = 0]

\* 673-678.
CaseReady(c) ==
  IF BackoffElapsed(c)
    THEN { Attempted(c, ok) : ok \in (IF c.wifi THEN BOOLEAN ELSE {FALSE}) }
    ELSE {c}

CaseConnecting_NoTimeout(c) ==
  IF c.sock
    THEN [c EXCEPT !._socketState = "CONNECTED", !._retryCount = 0]
    ELSE c

\* 680-697.
CaseConnecting(c) ==
  IF c.sock
    THEN [c EXCEPT !._socketState = "CONNECTED", !._retryCount = 0]
    ELSE IF c.elapsed >= CONNECT_TIMEOUT_MS
      THEN [c EXCEPT !.sock = FALSE, !._socketState = "READY_TO_CONNECT",
                     !._retryCount = Bumped(@)]
      ELSE c

\* 699-706.
CaseConnected(c) ==
  IF ~c.sock
    THEN [c EXCEPT !._socketState = "READY_TO_CONNECT", !._retryCount = 0]
    ELSE c

\* The values the object can hold after the case the switch selected.
AfterCase(c) ==
  CASE c.sw = "READY_TO_CONNECT" -> CaseReady(c)
    [] c.sw = "CONNECTING"       -> {CaseConnecting(c)}
    [] c.sw = "CONNECTED"        -> {CaseConnected(c)}
    [] c.sw = "DISCONNECTED"     -> {c}

\* 673-712: the selected case runs and update() returns.
UpdateBody ==
  /\ cat.pc = "switch"
  /\ \E c \in AfterCase(cat) :
       cat' = [c EXCEPT !.pc = "idle", !.sw = "DISCONNECTED", !.elapsed = 0]
  /\ UNCHANGED <<env, taskVars, kxpa>>

isConnected_Cached(c) == c._socketState = "CONNECTED"

\* 714-716: both reports are read at the call.
isConnected(c) == c.wifi /\ c.sock

Refused_Writes(c) == [c EXCEPT !.pc = "returned", !.sent = 1, !.result = <<>>]

\* 719-721: not connected, sendCommand returns "" at once.
Refused(c) == [c EXCEPT !.pc = "returned", !.sent = 0, !.result = <<>>]

\* 718-723: sendCommand is entered by the backend task between two calls of
\* update(); when connected it prints the command and starts to wait.
SendCommand ==
  /\ cat.pc = "idle"
  /\ cat' = IF ~isConnected(cat)
              THEN Refused(cat)
              ELSE [cat EXCEPT !.pc = "wait", !.sent = 1, !.before = cat.rx,
                               !.result = <<>>]
  /\ UNCHANGED <<env, taskVars, kxpa>>

\* rigctld's answer arrives while sendCommand waits.
Receive ==
  /\ cat.pc = "wait"
  /\ cat.sock
  /\ cat.rx = <<>>
  /\ \E r \in {Freq40m, Freq20m, RigError} : cat' = [cat EXCEPT !.rx = r]
  /\ UNCHANGED <<env, taskVars, kxpa>>

\* The answer to a command whose call has returned "" on the timeout
\* (730-733) arrives after that call, before the next one.
LateReceive ==
  /\ cat.pc = "idle"
  /\ cat.sent = 1 /\ cat.result = <<>>
  /\ cat.sock
  /\ cat.rx = <<>>
  /\ \E r \in {Freq40m, Freq20m, RigError} : cat' = [cat EXCEPT !.rx = r]
  /\ UNCHANGED <<env, taskVars, kxpa>>

\* 725-741: the wait ends, with bytes available or on the timeout; the
\* bytes available are read and returned, none gives "".
SendWait ==
  /\ cat.pc = "wait"
  /\ cat' = [cat EXCEPT !.pc = "returned", !.result = cat.rx, !.rx = <<>>]
  /\ UNCHANGED <<env, taskVars, kxpa>>

\* The caller (300-302) has the returned value; the call is over.
SendReturn ==
  /\ cat.pc = "returned"
  /\ cat' = [cat EXCEPT !.pc = "idle"]
  /\ UNCHANGED <<env, taskVars, kxpa>>

\* The values of (_socketState, WiFi.status(), _socket.connected()) the
\* object can hold between two calls of update(): DISCONNECTED is only set
\* together with the link being down (637, 659-661), and a socket that
\* outlives the link is one update() has seen connected, or not looked at
\* since the link went down.
CatIoStates ==
  { c \in { [CatInit EXCEPT !._socketState = s, !.wifi = w, !.sock = k] :
              s \in {"DISCONNECTED", "READY_TO_CONNECT", "CONNECTING",
                     "CONNECTED"},
              w \in BOOLEAN, k \in BOOLEAN } :
      /\ c._socketState = "DISCONNECTED" => ~c.wifi
      /\ (c.sock /\ ~c.wifi) => c._socketState \in {"DISCONNECTED", "CONNECTED"} }

NextCatIo ==
  GotIp \/ StaDisconnected \/ SocketDrop
  \/ SendCommand \/ Receive \/ SendWait \/ SendReturn

\* sendCommand with a service that may answer after the timeout.
NextCatLate == NextCatIo \/ LateReceive

NextCat ==
  CatTick \/ GotIp \/ StaDisconnected \/ SocketDrop \/ UpdateEnter \/ UpdateBody

\* ------------------------------------------------------------------------
\* KXPA100Controller: the serial exchanges (readme.md 1026-1301)
\* ------------------------------------------------------------------------
\* The port is open and takes every command whole (1273-1289); what txRx
\* returns is what the amplifier sent up to the first ';', or "" if nothing
\* came within the read timeout (1293-1301).
\* Arduino String::replace(find, ""): every occurrence of find is removed,
\* scanning from the left.
RECURSIVE Replace(_, _)
Replace(s, find) ==
  IF Len(s) < Len(find) THEN s
  ELSE IF SubSeq(s, 1, Len(find)) = find
         THEN Replace(SubSeq(s, Len(find) + 1, Len(s)), find)
         ELSE <<Head(s)>> \o Replace(Tail(s), find)

\* Arduino String::toFloat() (atof).  The payloads of the model carry a sign
\* and decimal digits but no '.', exponent or hexadecimal prefix, so the
\* value read is the integer atol reads; it is 0 if there is no number.
toFloat(str) == toInt(str)

\* The float (IEEE 754 binary32, round to nearest even) nearest to num / den,
\* for num >= 0 and den > 0, as the pair (m, k) that stands for m / 2^k with
\* m < 2^24 + 1.
RECURSIVE ExponentUp(_, _, _)
ExponentUp(num, den, e) ==
  IF (2 ^ (e + 1)) * den <= num THEN ExponentUp(num, den, e + 1) ELSE e

RECURSIVE ExponentDown(_, _, _)
ExponentDown(num, den, s) ==
  IF num * (2 ^ s) >= den THEN s ELSE ExponentDown(num, den, s + 1)

\* Binary long division: k more bits of the quotient q with remainder r.
RECURSIVE Shift(_, _, _, _)
Shift(q, r, den, k) ==
  IF k = 0 THEN [q |-> q, r |-> r]
  ELSE Shift(2 * q + (IF 2 * r >= den THEN 1 ELSE 0), (2 * r) % den, den, k - 1)

F32(num, den) ==
  IF num = 0 THEN [m |-> 0, k |-> 0]
  ELSE LET e == IF num >= den THEN ExponentUp(num, den, 0)
                ELSE 0 - ExponentDown(num, den, 1)
           k == 23 - e
           d == Shift(num \div den, num % den, den, k)
           up == 2 * d.r > den \/ (2 * d.r = den /\ d.q % 2 = 1)
       IN  [m |-> IF up THEN d.q + 1 ELSE d.q, k |-> k]

\* The integral part of a float and the numerator of its fraction.
Floor(f) == f.m \div (2 ^ f.k)

Frac(f) == f.m % (2 ^ f.k)

\* f > n and f < n for an integer n >= 0 (the int is converted to float
\* without loss).
Above(f, n) == Floor(f) > n \/ (Floor(f) = n /\ Frac(f) > 0)

Below(f, n) == Floor(f) < n

\* f > 99.9 (1111): the float is promoted to double and compared with the
\* double nearest to 99.9, which lies between 999/10 and the next float.
Above99_9(f) == Floor(f) > 99 \/ (Floor(f) = 99 /\ 10 * Frac(f) > 9 * (2 ^ f.k))

\* Decimal digits of n >= 0.
RECURSIVE ToStr(_)
ToStr(n) ==
  IF n < 10 THEN <<Digits[n + 1]>>
  ELSE ToStr(n \div 10) \o <<Digits[(n % 10) + 1]>>

\* Arduino String(float, decimalPlaces) for decimalPlaces 0 and 1: the value
\* rounded to that many places, halves away from zero, without padding.
Rounded(f, places) ==
  LET s == f.m * (10 ^ places)
      d == 2 ^ f.k
  IN  (s \div d) + (IF 2 * (s % d) >= d THEN 1 ELSE 0)

StringOf(neg, f, places) ==
  LET n == Rounded(f, places)
      sign == IF neg /\ f.m > 0 THEN <<"-">> ELSE <<>>
  IN  IF places = 0 THEN sign \o ToStr(n)
      ELSE sign \o ToStr(n \div 10) \o <<".">> \o ToStr(n % 10)

Abs(n) == IF n < 0 THEN 0 - n ELSE n

ERR == <<"E", "R", "R">>

\* 1103-1117, on the response txRx("^SW;") returned.
getSWR(s) ==
  IF Len(s) = 0 THEN <<"0", ".", "0">>
  ELSE LET raw == toFloat(Replace(s, <<"^", "S", "W">>))
           swr == F32(Abs(raw), 10)
       IN  IF (raw < 0 /\ swr.m > 0) \/ (raw >= 0 /\ Below(swr, 1))
              \/ (raw >= 0 /\ Above99_9(swr))
             THEN ERR
             ELSE StringOf(raw < 0, swr, 1)

\* 1119-1133, on the response txRx("^PF;") returned.
getPower(p) ==
  IF Len(p) = 0 THEN <<"0">>
  ELSE LET raw == toFloat(Replace(p, <<"^", "P", "F">>))
           pp  == F32(Abs(raw), 10)
       IN  IF (raw < 0 /\ pp.m > 0) \/ (raw >= 0 /\ Above(pp, 150))
             THEN ERR
             ELSE StringOf(raw < 0, pp, 0)

\* 1135-1150, on the response txRx("^TM;") returned.
getTemperature(t) ==
  IF Len(t) = 0 THEN <<"0">>
  ELSE LET raw == toFloat(Replace(Replace(t, <<"^", "T", "M">>), <<";">>))
           tt  == F32(Abs(raw), 10)
       IN  IF (raw < 0 /\ Above(tt, 40)) \/ (raw >= 0 /\ Above(tt, 100))
             THEN ERR
             ELSE StringOf(raw < 0, tt, 0)

\* 1176-1190, on the response txRx("^SV;") returned.
getVoltage(v) ==
  IF Len(v) = 0 THEN <<"0", ".", "0">>
  ELSE LET raw == toFloat(Replace(v, <<"^", "S", "V">>))
           vv  == F32(Abs(raw), 1000)
       IN  IF (raw < 0 /\ vv.m > 0) \/ (raw >= 0 /\ Above(vv, 20))
             THEN ERR
             ELSE StringOf(raw < 0, vv, 1)

\* 1200-1215, on the response txRx("^BN;") returned.
getBand(b) ==
  IF Len(b) = 0 THEN -1
  ELSE LET band == toInt(Replace(b, <<"^", "B", "N">>))
       IN  IF band < 0 \/ band >= _bandCount THEN -1 ELSE band

\* 1092-1094, on the response txRx("^I;") returned.
checkConnection(v) == v = <<"^", "I", "K", "X", "P", "A", "1", "0", "0">>

\* The amplifier's band-get answer for band i, as readStringUntil(';')
\* returns it.
BandEcho(i) == <<"^", "B", "N", Digits[(i \div 10) + 1], Digits[(i % 10) + 1]>>

\* What txRx("^BN;") may return: nothing within the timeout, the echo with
\* an index, the echo with no number, the echo of another command.
AnyBandAnswers ==
  { <<>>, BandEcho(0), BandEcho(3), BandEcho(5), BandEcho(10), BandEcho(11),
    <<"^", "B", "N", "x", "x">>, <<"^", "A", "N", "1">> }

\* A device "kxpa100" is an amplifier that is on band ampBand and answers
\* band-get with it; a device "any" may answer anything.
BandAnswers(k) ==
  IF k.device = "kxpa100" THEN {BandEcho(k.ampBand)} ELSE AnyBandAnswers

SetBandArgs == {-1, 0, 3, 5, 10, 11}

SwrAnswers ==
  { <<>>, <<"^", "S", "W", "0", "0", "9">>, <<"^", "S", "W", "0", "1", "0">>,
    <<"^", "S", "W", "0", "1", "5">>, <<"^", "S", "W", "9", "9", "8">>,
    <<"^", "S", "W", "9", "9", "9">>, <<"^", "S", "W", "1", "0", "0", "0">>,
    <<"^", "S", "W", "x", "x">> }

PowerAnswers ==
  { <<>>, <<"^", "P", "F", "0", "0", "0", "0">>, <<"^", "P", "F", "0", "7", "5", "4">>,
    <<"^", "P", "F", "0", "7", "5", "5">>, <<"^", "P", "F", "1", "5", "0", "0">>,
    <<"^", "P", "F", "1", "5", "0", "1">>, <<"^", "P", "F", "x", "x">> }

TemperatureAnswers ==
  { <<>>, <<"^", "T", "M", "0", "2", "5", "0">>, <<"^", "T", "M", "1", "0", "0", "0">>,
    <<"^", "T", "M", "1", "0", "0", "1">>, <<"^", "T", "M", "-", "4", "0", "0">>,
    <<"^", "T", "M", "-", "4", "0", "1">>, <<"^", "T", "M", "x", "x">> }

VoltageAnswers ==
  { <<>>, <<"^", "S", "V", "1", "3", "8", "0", "0">>, <<"^", "S", "V", "1", "3", "8", "5", "0">>,
    <<"^", "S", "V", "2", "0", "0", "0", "0">>, <<"^", "S", "V", "2", "0", "0", "0", "1">>,
    <<"^", "S", "V", "x", "x">> }

\* Frequencies looked up: both ends of every band, their outer neighbours,
\* a frequency inside, and values no band holds (a negative long stands for
\* the value it wraps to).
Frequencies ==
  UNION { { _bandTable[i].lowerFreq - 1, _bandTable[i].lowerFreq,
            _bandTable[i].lowerFreq + 1000, _bandTable[i].upperFreq,
            _bandTable[i].upperFreq + 1 } : i \in 1.._bandCount }
  \cup {-1, 0, 14250000}

Called(k, m) ==
  [k EXCEPT !.pc = "returned", !.method = m, !.idx = 0, !.freq = 0,
            !.attempt = 0, !.tx = <<>>, !.resp = <<>>, !.band = -1,
            !.text = <<>>]

Rejected_Writes(k, idx) ==
  [Called(k, "setBand") EXCEPT !.idx = idx,
                               !.tx = <<"^BN00;", "^AN1;", "^BN;">>]

\* 1238-1242: an index outside the table, setBand returns.
Rejected(k, idx) == [Called(k, "setBand") EXCEPT !.idx = idx]

\* 1237-1245: setBand(idx) is entered.
Entered(k, idx) ==
  IF idx < 0 \/ idx >= _bandCount
    THEN Rejected(k, idx)
    ELSE [Called(k, "setBand") EXCEPT !.idx = idx, !.pc = "attempt"]

CallSetBand ==
  /\ kxpa.pc = "idle"
  /\ \E idx \in SetBandArgs : kxpa' = Entered(kxpa, idx)
  /\ UNCHANGED <<env, taskVars, cat>>

Verified_Never(actualBand, idx) == FALSE

\* 1253.
Verified(actualBand, idx) == actualBand = idx

\* 1246-1261: one pass of the loop.  The band command takes effect on a
\* KXPA100 before the band-get is answered.
AfterAttempt(k, r) ==
  LET actualBand == getBand(r)
      done == Verified(actualBand, k.idx) \/ k.attempt + 1 >= KXPA_MAX_RETRIES
  IN  [k EXCEPT !.tx = @ \o <<_bandTable[k.idx + 1].bandCmd,
                               _bandTable[k.idx + 1].antennaCmd, "^BN;">>,
                !.resp = r,
                !.band = actualBand,
                !.attempt = @ + 1,
                !.pc = IF done THEN "returned" ELSE "attempt"]

SetBandAttempt ==
  /\ kxpa.pc = "attempt"
  /\ \E r \in BandAnswers([kxpa EXCEPT !.ampBand = kxpa.idx]) :
       kxpa' = [AfterAttempt(kxpa, r) EXCEPT !.ampBand =
                  IF kxpa.device = "kxpa100" THEN kxpa.idx ELSE @]
  /\ UNCHANGED <<env, taskVars, cat>>

\* getBand() called on its own (281).
CallGetBand ==
  /\ kxpa.pc = "idle"
  /\ \E r \in BandAnswers(kxpa) :
       kxpa' = [Called(kxpa, "getBand") EXCEPT !.tx = <<"^BN;">>, !.resp = r,
                                               !.band = getBand(r)]
  /\ UNCHANGED <<env, taskVars, cat>>

CallGetSWR ==
  /\ kxpa.pc = "idle"
  /\ \E r \in SwrAnswers :
       kxpa' = [Called(kxpa, "getSWR") EXCEPT !.tx = <<"^SW;">>, !.resp = r,
                                              !.text = getSWR(r)]
  /\ UNCHANGED <<env, taskVars, cat>>

CallGetPower ==
  /\ kxpa.pc = "idle"
  /\ \E r \in PowerAnswers :
       kxpa' = [Called(kxpa, "getPower") EXCEPT !.tx = <<"^PF;">>, !.resp = r,
                                                !.text = getPower(r)]
  /\ UNCHANGED <<env, taskVars, cat>>

CallGetTemperature ==
  /\ kxpa.pc = "idle"
  /\ \E r \in TemperatureAnswers :
       kxpa' = [Called(kxpa, "getTemperature") EXCEPT !.tx = <<"^TM;">>,
                  !.resp = r, !.text = getTemperature(r)]
  /\ UNCHANGED <<env, taskVars, cat>>

CallGetVoltage ==
  /\ kxpa.pc = "idle"
  /\ \E r \in VoltageAnswers :
       kxpa' = [Called(kxpa, "getVoltage") EXCEPT !.tx = <<"^SV;">>, !.resp = r,
                                                  !.text = getVoltage(r)]
  /\ UNCHANGED <<env, taskVars, cat>>

\* 1227-1235.
CallGetBandIndexByFrequency ==
  /\ kxpa.pc = "idle"
  /\ \E f \in Frequencies :
       kxpa' = [Called(kxpa, "getBandIndexByFrequency") EXCEPT
                  !.freq = f, !.band = getBandIndexByFrequency(f)]
  /\ UNCHANGED <<env, taskVars, cat>>

\* The caller has the result; the controller is idle again.
KxReturn ==
  /\ kxpa.pc = "returned"
  /\ kxpa' = [kxpa EXCEPT !.pc = "idle"]
  /\ UNCHANGED <<env, taskVars, cat>>

\* ------------------------------------------------------------------------
\* KXPA100Controller::txRx step by step (readme.md 1271-1301)
\* ------------------------------------------------------------------------
\* 1152-1156, on the response txRx("^AN;") returned.
getAntenna(a) == IF Len(a) = 0 THEN <<"?">> ELSE a

_modeCmd == << <<"^", "M", "D", "B">>, <<"^", "M", "D", "M">>,
               <<"^", "M", "D", "A">> >>

\* 1158-1169, on the response txRx("^MD;") returned; the result is the
\* index into _modeStr, 0 for "Unknown" and -1 for the response itself.
getMode(m) ==
  IF Len(m) = 0 THEN 0
  ELSE IF \E i \in 1..3 : m = _modeCmd[i]
         THEN CHOOSE i \in 1..3 : m = _modeCmd[i]
         ELSE -1

\* 1192-1198, on the response txRx("^FL;") returned.
getFaultCodes(f) ==
  IF Len(f) = 0 THEN <<"?">> ELSE Replace(f, <<"^", "F", "L">>)

\* 1171-1174, on the response txRx(mode) returned.
setMode(c) == c

\* The position of the first ';' in s, 0 if there is none.
RECURSIVE FirstSemi(_, _)
FirstSemi(s, i) ==
  IF i > Len(s) THEN 0
  ELSE IF s[i] = ";" THEN i ELSE FirstSemi(s, i + 1)

\* A byte arrives from the amplifier: part of an answer, or of the answer
\* to a command whose read has timed out.
RxArrive ==
  /\ Len(kxpa.rxbuf) < MaxRx
  /\ \E b \in {"5", ";"} : kxpa' = [kxpa EXCEPT !.rxbuf = Append(@, b)]
  /\ UNCHANGED <<env, taskVars, cat>>

\* 1271-1276: txRx("^BN;") is called; without a port it returns "".
TxCall ==
  /\ kxpa.pc = "idle"
  /\ \E p \in BOOLEAN :
       kxpa' = [kxpa EXCEPT !.pc = IF p THEN "t_drain" ELSE "returned",
                            !.method = "txRx", !.port = p, !.tx = <<>>,
                            !.resp = <<>>, !.wrote = FALSE, !.drained = FALSE,
                            !.consumed = 0, !.atCall = Len(kxpa.rxbuf),
                            !.early = 0]
  /\ UNCHANGED <<env, taskVars, cat>>

TxDrain_Skips ==
  /\ kxpa.pc = "t_drain"
  /\ kxpa' = [kxpa EXCEPT !.pc = "t_write"]
  /\ UNCHANGED <<env, taskVars, cat>>

\* 1278-1281: one pass of the loop: a byte is read and dropped, or
\* available() is 0 and the loop ends.
TxDrain ==
  /\ kxpa.pc = "t_drain"
  /\ kxpa' = IF kxpa.rxbuf # <<>>
               THEN [kxpa EXCEPT !.rxbuf = Tail(@), !.drained = TRUE,
                                 !.atCall = IF @ > 0 THEN @ - 1 ELSE 0]
               ELSE [kxpa EXCEPT !.pc = "t_write"]
  /\ UNCHANGED <<env, taskVars, cat>>

\* 1283-1288: the command is written, whole or not; a short write returns "".
TxWrite ==
  /\ kxpa.pc = "t_write"
  /\ \E whole \in BOOLEAN :
       kxpa' = [kxpa EXCEPT !.pc = IF whole THEN "t_read" ELSE "returned",
                            !.tx = IF whole THEN <<"^BN;">> ELSE <<"^B">>,
                            !.wrote = whole,
                            !.early = Len(kxpa.rxbuf)]
  /\ UNCHANGED <<env, taskVars, cat>>

\* 1290-1301: after the delay readStringUntil(';') takes the bytes up to
\* and with the first ';' and returns those before it, or takes what there
\* is when the timeout ends the read.
TxRead ==
  /\ kxpa.pc = "t_read"
  /\ LET n == FirstSemi(kxpa.rxbuf, 1)
         taken == IF n > 0 THEN n ELSE Len(kxpa.rxbuf)
         line  == IF n > 0 THEN SubSeq(kxpa.rxbuf, 1, n - 1) ELSE kxpa.rxbuf
     IN  kxpa' = [kxpa EXCEPT !.pc = "returned", !.resp = line,
                              !.consumed = taken,
                              !.rxbuf = SubSeq(@, taken + 1, Len(@))]
  /\ UNCHANGED <<env, taskVars, cat>>

NextTxRx == RxArrive \/ TxCall \/ TxDrain \/ TxWrite \/ TxRead \/ KxReturn

\* ------------------------------------------------------------------------
\* backendTask with the amplifier on the serial line
\* ------------------------------------------------------------------------
\* What a KXPA100 answers to "^I;", as readStringUntil(';') returns it.
KxpaIdent == <<"^", "I", "K", "X", "P", "A", "1", "0", "0">>

\* The CAT link is up or down, rigctld reports a frequency in the 20m band.
EnvEndToEnd ==
  [kx |-> {TRUE}, ct |-> BOOLEAN, polled |-> {-1}, readings |-> {Reading(1)},
   resp |-> {Freq20m}, sel |-> -1, top |-> MAX_POS + 1]

\* 247-252, 267-274: the claim as in BClaim; a claimed request enters
\* setBand(target).
EClaim ==
  /\ UNCHANGED <<env, cat>>
  /\ pcB = "b_claim"
  /\ IF sharedState.manualChangeReq
       THEN /\ sharedState' = Claimed(sharedState)
            /\ claimFresh' = reqFresh
            /\ reqFresh' = FALSE
            /\ manualReq' = TRUE
            /\ target' = sharedState.manualTargetBand
            /\ kxpa' = Entered(kxpa, sharedState.manualTargetBand)
            /\ cycleOps' = <<Op("setBand", sharedState.manualTargetBand)>>
       ELSE /\ UNCHANGED <<sharedState, claimFresh, reqFresh, kxpa>>
            /\ manualReq' = FALSE
            /\ target' = 0
            /\ cycleOps' = <<>>
  /\ dataMutex' = dataMutex \ {"backend"}
  /\ pcB' = "e_poll"
  /\ UNCHANGED <<currentBandIdx, justSwitched, p_bandName, p_tel, kxpaOk,
                 newBand, catOk, freqStr, uiVars>>

\* 269-306: after the override's setBand, if any, the poll and the CAT
\* query as in Exchanges, with checkConnection() and getBand() computed from
\* what the amplifier answers; a band to apply enters setBand(newIdx).
EPoll ==
  /\ UNCHANGED <<env, cat>>
  /\ pcB = "e_poll"
  /\ kxpa.pc # "attempt"
  /\ \E b \in BandAnswers(kxpa), r \in env.readings, ct \in env.ct,
        resp \in env.resp :
       LET cur1  == IF manualReq THEN target ELSE currentBandIdx
           name1 == IF manualReq THEN getBandName(target) ELSE ""
           js    == manualReq
           kx    == checkConnection(KxpaIdent)
           doPoll == DoPoll(kx, js)
           polled == getBand(b)
           cur2  == IF doPoll /\ polled >= 0 THEN polled ELSE cur1
           name2 == IF doPoll /\ polled >= 0 THEN getBandName(polled) ELSE name1
           doCat  == DoCat(ct, manualReq)
           newIdx == getBandIndexByFrequency(toInt(resp))
           doSet  == doCat /\ Len(resp) > 0 /\ ShouldSet(newIdx, cur2)
       IN  /\ justSwitched' = js
           /\ kxpaOk' = kx
           /\ newBand' = IF doPoll THEN polled ELSE -1
           /\ freqStr' = IF doCat THEN resp ELSE <<>>
           /\ p_tel' = IF kx THEN r ELSE EmptyTel
           /\ catOk' = ct
           /\ currentBandIdx' = cur2
           /\ p_bandName' = name2
           /\ cycleOps' = cycleOps \o <<Op("checkConnection", -1)>>
                 \o (IF doPoll THEN <<Op("getBand", -1)>> ELSE <<>>)
                 \o (IF kx THEN <<Op("telemetry", -1)>> ELSE <<>>)
                 \o <<Op("isConnected", -1)>>
                 \o (IF doCat THEN <<Op("sendCommand", -1)>> ELSE <<>>)
                 \o (IF doSet THEN <<Op("setBand", newIdx)>> ELSE <<>>)
           /\ kxpa' = IF doSet THEN Entered(kxpa, newIdx)
                      ELSE [kxpa EXCEPT !.pc = "idle"]
           /\ pcB' = IF doSet THEN "e_set" ELSE "b_take2"
  /\ UNCHANGED <<sharedState, dataMutex, manualReq, target, uiVars, histVars>>

\* 307-309: setBand(newIdx) has returned; the cycle tracks newIdx.
ESetDone ==
  /\ UNCHANGED <<env, cat>>
  /\ pcB = "e_set"
  /\ kxpa.pc = "returned"
  /\ currentBandIdx' = kxpa.idx
  /\ p_bandName' = getBandName(kxpa.idx)
  /\ kxpa' = [kxpa EXCEPT !.pc = "idle"]
  /\ pcB' = "b_take2"
  /\ UNCHANGED <<sharedState, dataMutex, manualReq, target, justSwitched,
                 p_tel, kxpaOk, newBand, catOk, freqStr, cycleOps, uiVars,
                 histVars>>

\* ------------------------------------------------------------------------
\* setup() on the loop task, then the two tasks (main.cpp 185-219)
\* ------------------------------------------------------------------------
\* The positions of setup() from its first to its last call on kxpa.
SetupPositions == {"s_wait", "s_check", "s_setBand"}

SWait_CreatesTask ==
  /\ pcU = "s_wait"
  /\ \E v \in {KxpaIdent, <<>>}, late \in BOOLEAN :
       /\ kxpa' = [Called(kxpa, "checkConnection") EXCEPT
                     !.tx = <<"^I;">>, !.resp = v, !.pc = "idle"]
       /\ pcU' = IF checkConnection(v) \/ late THEN "s_check" ELSE "s_wait"
  /\ pcB' = "b_take1"
  /\ UNCHANGED <<env, cat, sharedState, dataMutex, currentBandIdx, manualReq,
                 target, justSwitched, p_bandName, p_tel, kxpaOk, newBand,
                 catOk, freqStr, cycleOps, ui, histVars>>

\* 187-190: one pass of the wait loop: checkConnection() is called; the
\* loop ends when it succeeds or when 5000 ms have passed (late).
SWait ==
  /\ pcU = "s_wait"
  /\ \E v \in {KxpaIdent, <<>>}, late \in BOOLEAN :
       /\ kxpa' = [Called(kxpa, "checkConnection") EXCEPT
                     !.tx = <<"^I;">>, !.resp = v, !.pc = "idle"]
       /\ pcU' = IF checkConnection(v) \/ late THEN "s_check" ELSE "s_wait"
  /\ UNCHANGED <<env, cat, sharedState, dataMutex, backendVars, ui, histVars>>

\* 192-199: checkConnection() once more; if it succeeds setBand(5) is
\* entered.
SCheck ==
  /\ pcU = "s_check"
  /\ \E v \in {KxpaIdent, <<>>} :
       IF checkConnection(v)
         THEN /\ kxpa' = Entered(kxpa, 5)
              /\ pcU' = "s_setBand"
         ELSE /\ kxpa' = [Called(kxpa, "checkConnection") EXCEPT
                            !.tx = <<"^I;">>, !.resp = v, !.pc = "idle"]
              /\ pcU' = "s_create"
  /\ UNCHANGED <<env, cat, sharedState, dataMutex, backendVars, ui, histVars>>

\* 195-196: setBand(5) has returned; setMode("^MDA;") is called and
\* returns.
SSetMode ==
  /\ pcU = "s_setBand"
  /\ kxpa.pc = "returned"
  /\ \E r \in {<<>>, _modeCmd[3]} :
       kxpa' = [Called(kxpa, "setMode") EXCEPT
                  !.tx = <<"^MDA;">>, !.resp = r, !.text = setMode(r),
                  !.pc = "idle"]
  /\ pcU' = "s_create"
  /\ UNCHANGED <<env, cat, sharedState, dataMutex, backendVars, ui, histVars>>

\* 201-218: xTaskCreatePinnedToCore; backendTask starts, or setup() halts
\* (212-215).  setup() returns and loop() is called.
SCreate ==
  /\ pcU = "s_create"
  /\ \E created \in BOOLEAN :
       /\ pcB' = IF created THEN "b_take1" ELSE "b_none"
       /\ pcU' = IF created THEN "u_take1" ELSE "s_halt"
  /\ UNCHANGED <<env, cat, kxpa, sharedState, dataMutex, currentBandIdx,
                 manualReq, target, justSwitched, p_bandName, p_tel, kxpaOk,
                 newBand, catOk, freqStr, cycleOps, ui, histVars>>

NextStartup ==
  \/ SWait \/ SCheck \/ SetBandAttempt \/ SSetMode \/ SCreate
  \/ BTake1 \/ EClaim \/ EPoll \/ ESetDone \/ BTake2 \/ BPublish \/ BGive2
  \/ UIStep

NextEndToEnd ==
  \/ BTake1 \/ EClaim \/ EPoll \/ SetBandAttempt \/ ESetDone
  \/ BTake2 \/ BPublish \/ BGive2

NextController ==
  \/ CallSetBand \/ SetBandAttempt \/ CallGetBand
  \/ CallGetSWR \/ CallGetPower \/ CallGetTemperature \/ CallGetVoltage
  \/ CallGetBandIndexByFrequency \/ KxReturn

\* The manual-override scenario.
Spec == Init /\ [][Next]_vars

\* The telemetry scenario.
SpecTelemetry == InitTelemetry /\ [][Next]_vars

\* The automatic scenario.
SpecAuto == InitAuto /\ [][Next]_vars

\* The range scenario.
SpecRange == InitRange /\ [][Next]_vars

\* The CatWifiClient object on its own.
SpecCatClient == Init /\ [][NextCat]_vars

\* sendCommand and the connection reports, from every state update() can
\* leave the object in.
InitCatIo ==
  TaskInit /\ env = EnvManual /\ cat \in CatIoStates /\ kxpa = KxpaInit

SpecCatIo == InitCatIo /\ [][NextCatIo]_vars

SpecCatLate == InitCatIo /\ [][NextCatLate]_vars

\* The KXPA100Controller object on its own: its methods called one after
\* the other, the serial line answering anything.
SpecController == Init /\ [][NextController]_vars

\* txRx called again and again while bytes arrive on the serial line.
SpecTxRx == Init /\ [][NextTxRx]_vars

\* backendTask alone with a KXPA100 that is on any of its bands when the
\* first cycle starts.
InitEndToEnd ==
  /\ TaskInit
  /\ env = EnvEndToEnd
  /\ cat = CatInit
  /\ \E a \in 0..10 :
       kxpa = [KxpaInit EXCEPT !.device = "kxpa100", !.ampBand = a]

SpecEndToEnd == InitEndToEnd /\ [][NextEndToEnd]_vars

\* From the wait for the amplifier in setup(): backendTask does not exist
\* yet, the amplifier is on 40m.
InitStartup ==
  /\ sharedState = SharedInit
  /\ dataMutex = {}
  /\ pcB = "b_none"
  /\ currentBandIdx = 0
  /\ manualReq = FALSE
  /\ target = 0
  /\ justSwitched = FALSE
  /\ p_bandName = ""
  /\ p_tel = EmptyTel
  /\ kxpaOk = FALSE
  /\ newBand = -1
  /\ catOk = FALSE
  /\ freqStr = <<>>
  /\ cycleOps = <<>>
  /\ pcU = "s_wait"
  /\ ui = UiInit
  /\ reqFresh = FALSE
  /\ claimFresh = FALSE
  /\ env = EnvEndToEnd
  /\ cat = CatInit
  /\ kxpa = [KxpaInit EXCEPT !.device = "kxpa100", !.ampBand = 3]

SpecStartup == InitStartup /\ [][NextStartup]_vars

\* The request scenario, each task running for ever on its own core.
SpecRequest == InitRequest /\ [][Next]_vars

FairRequest == SpecRequest /\ WF_vars(BackendStep) /\ WF_vars(UIStep)

\* The CatWifiClient object while the WiFi link stays up: the state after
\* the GOT_IP event (653-657), then update() called from backendTask (233)
\* while millis() advances and the socket may drop.
InitCatLink ==
  /\ TaskInit
  /\ env = EnvManual
  /\ cat = [CatInit EXCEPT !._socketState = "READY_TO_CONNECT", !.wifi = TRUE]
  /\ kxpa = KxpaInit

NextCatLink == CatTick \/ SocketDrop \/ UpdateEnter \/ UpdateBody

SpecCatLink == InitCatLink /\ [][NextCatLink]_vars

\* backendTask's loop calls update() in every iteration (231-233), and
\* millis() advances.
FairCatLink ==
  /\ SpecCatLink
  /\ WF_vars(CatTick) /\ WF_vars(UpdateEnter) /\ WF_vars(UpdateBody)

\* backendTask runs its cycles between the iterations of loop(): while an
\* iteration of loop() is under way the other core is in a delay or in one
\* of its exchanges.
BackendBetweenPasses == pcU = "u_take1" /\ BackendStep

NextRender == BackendBetweenPasses \/ UIStep

SpecRender == Init /\ [][NextRender]_vars

\* The two tasks run for ever, each on its own core.
FairSpec == Spec /\ WF_vars(BackendStep) /\ WF_vars(UIStep)

\* ------------------------------------------------------------------------
\* Properties
\* ------------------------------------------------------------------------
\* Positions of backendTask after the cycle's exchanges.
AfterExchanges == {"b_take2", "b_publish", "b_published"}

\* The setBand calls among a cycle's calls.
SetBandCalls(ops) == { i \in 1..Len(ops) : ops[i].op = "setBand" }

\* C1: a request that is pending when the backend publishes (it was posted
\* after this cycle's claim) is left in place by the publish: the flag stays
\* set and the band index and name stay those of its target.
C1_PublishKeepsMidCycleRequest ==
  [][(pcB = "b_publish" /\ pcB' = "b_published" /\ sharedState.manualChangeReq)
       => /\ sharedState'.manualChangeReq
          /\ sharedState'.bandIndex = sharedState.manualTargetBand
          /\ sharedState'.bandName = getBandName(sharedState.manualTargetBand)]_vars

\* A publish has just run with a request pending whose target is not the
\* band the cycle resolved.
C1_Witness ==
  /\ pcB = "b_published"
  /\ sharedState.manualChangeReq
  /\ sharedState.bandIndex = sharedState.manualTargetBand
  /\ currentBandIdx # sharedState.manualTargetBand
  /\ cycleOps # <<>>

\* C2: the claim reads the target and clears the flag in one critical
\* section; a claimed request is one that was posted and not claimed before,
\* and the cycle that claimed it calls setBand(target) exactly once.
C2_ClaimedOnce ==
  /\ [](manualReq => claimFresh)
  /\ []((pcB \in AfterExchanges /\ manualReq)
          => /\ Cardinality(SetBandCalls(cycleOps)) = 1
             /\ cycleOps[1] = Op("setBand", target))
  /\ [][(pcB = "b_claim" /\ pcB' # pcB /\ sharedState.manualChangeReq)
          => /\ manualReq'
             /\ target' = sharedState.manualTargetBand
             /\ ~sharedState'.manualChangeReq]_vars

\* A claimed request has been applied and no other is pending.
C2_Witness ==
  /\ pcB = "b_take2"
  /\ manualReq
  /\ claimFresh
  /\ ~sharedState.manualChangeReq
  /\ cycleOps[1] = Op("setBand", target)

\* C3: a cycle that claimed an override calls setBand(target) first, makes
\* no getBand poll, no frequency query and no second setBand, and offers the
\* target as the cycle's band; the publish stores it unless a newer request
\* is pending.
C3_OverrideCycle ==
  /\ (pcB \in AfterExchanges /\ manualReq)
       => /\ cycleOps[1] = Op("setBand", target)
          /\ \A i \in 2..Len(cycleOps) :
               cycleOps[i].op \notin {"getBand", "sendCommand", "setBand"}
          /\ currentBandIdx = target
          /\ p_bandName = getBandName(target)
  /\ (pcB = "b_published" /\ manualReq /\ ~sharedState.manualChangeReq)
       => /\ sharedState.bandIndex = target
          /\ sharedState.bandName = getBandName(target)

\* An override cycle has published its target with both links up, and the
\* target is not the band the amplifier reports.
C3_Witness ==
  /\ pcB = "b_published"
  /\ manualReq
  /\ kxpaOk /\ catOk
  /\ ~sharedState.manualChangeReq
  /\ sharedState.bandIndex = target
  /\ target \notin env.polled

\* Positions at which a task is inside a critical section.
BackendCritical == {"b_claim", "b_publish", "b_published"}

UiCritical == {"u_snap", "u_post", "u_clearConn", "u_status", "u_clearAll"}

\* C4: the two tasks never hold the mutex together, a task inside a critical
\* section holds it, and sharedState changes only in a step of a task that
\* holds it.
C4_LockDiscipline ==
  /\ [](Cardinality(dataMutex) <= 1)
  /\ [](pcB \in BackendCritical => "backend" \in dataMutex)
  /\ [](pcU \in UiCritical => "ui" \in dataMutex)
  /\ [][sharedState' # sharedState
          => IF pcB' # pcB THEN "backend" \in dataMutex ELSE "ui" \in dataMutex]_vars

\* The backend holds the mutex in its publish while the UI is about to take it.
C4_Witness ==
  /\ pcB = "b_publish"
  /\ dataMutex = {"backend"}
  /\ pcU \in {"u_take1", "u_takeB", "u_noKxpa", "u_take4", "u_draw"}

\* The next step of loop() draws on the display.
Rendering ==
  \/ pcU \in {"u_noKxpa", "u_draw"}
  \/ pcU = "u_status" /\ DrawsStatus

\* C5: loop() never draws while it holds the mutex.
C5_NoRenderUnderLock == Rendering => "ui" \notin dataMutex

\* C6: a publish stores each telemetry value, and sets the field's dirty flag
\* exactly when that value differs from the stored one; otherwise the flag
\* is left as it was.
C6_DirtyIffChanged ==
  [][(pcB = "b_publish" /\ pcB' = "b_published")
       => \A f \in TelFields :
            /\ TelOf(sharedState')[f] = p_tel[f]
            /\ DirtyOf(sharedState', f)
                 = (DirtyOf(sharedState, f) \/ TelOf(sharedState)[f] # p_tel[f])]_vars

\* A publish has just run that left the temperature flag clear (the value
\* was repeated) with the power flag set (the value changed since the
\* renderer cleared the flags).
C6_Witness ==
  /\ pcB = "b_published"
  /\ ~sharedState.tempDirty
  /\ sharedState.powerDirty
  /\ sharedState.temp = p_tel.temp
  /\ sharedState.power = p_tel.power

\* C7: the band dirty flag goes from clear to set only in a step that
\* changes the band index or the band name.
C7_BandDirtyOnlyOnChange ==
  [][(sharedState'.bandDirty /\ ~sharedState.bandDirty)
       => \/ sharedState'.bandIndex # sharedState.bandIndex
          \/ sharedState'.bandName # sharedState.bandName]_vars

\* C8: when the renderer clears the flags, every telemetry field whose flag
\* is then clear holds the value the pass drew from its snapshot.
C8_NoLostChange ==
  [][(pcU = "u_clearAll" /\ pcU' # pcU)
       => \A f \in TelFields :
            ~DirtyOf(sharedState', f) => ui.s_tel[f] = TelOf(sharedState')[f]]_vars

\* C9: when the snapshot read times out, loop() goes on to no rendering and
\* no post, and leaves the selector and the stepping mode alone.
C9_TimeoutSkipsIteration ==
  [][(pcU = "u_take1" /\ TimesOut("ui"))
       => /\ pcU' \notin {"u_noKxpa", "u_takeB", "u_take4"}
          /\ ui'.uiBandCounter = ui.uiBandCounter
          /\ ui'.uiUpdatingBand = ui.uiUpdatingBand]_vars

\* C10: a confirmation of band t leads to a pending request for t.
C10_ConfirmNotLost ==
  \A t \in MIN_POS..MAX_POS :
    (pcU = "u_takeB" /\ ui.uiBandCounter = t)
      ~> (sharedState.manualChangeReq /\ sharedState.manualTargetBand = t)

\* C11: in an iteration that starts with catConnected stored as true, no
\* button steps the selector and none starts a post.
C11_NoButtonsUnderCat ==
  [][(pcU \in {"u_take1", "u_snap"} /\ sharedState.catConnected)
       => (~ui'.manualAction /\ pcU' # "u_takeB")]_vars

\* C12: the post writes the flag, the target, the band index, the band name
\* and the band dirty flag in one critical section, and whenever a request is
\* pending the stored band is that of its target.
C12_PendingBandIsTarget ==
  /\ [](sharedState.manualChangeReq
          => /\ sharedState.bandIndex = sharedState.manualTargetBand
             /\ sharedState.bandName = getBandName(sharedState.manualTargetBand))
  /\ [][(pcU = "u_post" /\ pcU' # pcU)
          => /\ sharedState'.manualChangeReq
             /\ sharedState'.manualTargetBand = ui.uiBandCounter
             /\ sharedState'.bandIndex = ui.uiBandCounter
             /\ sharedState'.bandName = getBandName(ui.uiBandCounter)
             /\ sharedState'.bandDirty]_vars

\* The backend, holding the mutex for its publish, sees a pending request
\* for 80m together with the 80m band fields.
C12_Witness ==
  /\ pcB = "b_publish"
  /\ sharedState.manualChangeReq
  /\ sharedState.manualTargetBand = 1
  /\ sharedState.bandIndex = 1
  /\ sharedState.bandName = "80m"
  /\ sharedState.bandDirty

\* What a step changes in sharedState.
TelemetryWritten ==
  \/ TelOf(sharedState') # TelOf(sharedState)
  \/ sharedState'.kxpaConnected # sharedState.kxpaConnected
  \/ sharedState'.catConnected # sharedState.catConnected

BandWritten ==
  \/ sharedState'.bandIndex # sharedState.bandIndex
  \/ sharedState'.bandName # sharedState.bandName

RequestWritten ==
  \/ sharedState'.manualChangeReq # sharedState.manualChangeReq
  \/ sharedState'.manualTargetBand # sharedState.manualTargetBand

\* C13 as stated: telemetry, band and connection fields change only in steps
\* of backendTask, the request fields only in steps of loop().
C13_StrictOwnership ==
  [][/\ (TelemetryWritten \/ BandWritten) => pcB' # pcB
     /\ RequestWritten => pcU' # pcU]_vars

\* C13 as amended: telemetry and connection flags change only in the
\* backend's publish; the target changes and the flag is set only in the
\* UI's post; the flag is cleared only in the backend's claim; the band
\* fields change only in the backend's publish or the UI's post.
C13_Ownership ==
  [][/\ TelemetryWritten => pcB = "b_publish" /\ pcB' # pcB
     /\ sharedState'.manualTargetBand # sharedState.manualTargetBand
          => pcU = "u_post" /\ pcU' # pcU
     /\ (sharedState'.manualChangeReq /\ ~sharedState.manualChangeReq)
          => pcU = "u_post" /\ pcU' # pcU
     /\ (~sharedState'.manualChangeReq /\ sharedState.manualChangeReq)
          => pcB = "b_claim" /\ pcB' # pcB
     /\ BandWritten => \/ pcB = "b_publish" /\ pcB' # pcB
                       \/ pcU = "u_post" /\ pcU' # pcU]_vars

\* The backend has cleared a flag the UI set, and the stored band fields are
\* those the UI wrote while the amplifier link was not yet published.
C13_Witness ==
  /\ pcB = "b_take2"
  /\ manualReq
  /\ target = 1
  /\ ~sharedState.manualChangeReq
  /\ sharedState.bandIndex = 1
  /\ sharedState.bandName = "80m"
  /\ ~sharedState.kxpaConnected

\* C14: in a cycle with the CAT link up and no override claimed, setBand(i)
\* is called exactly when the answer is not empty and its frequency maps to
\* a selector position i other than the band tracked after the poll; the
\* tracked band then becomes i, and otherwise stays as it was.
C14_AutoBandSelection ==
  [][(pcB # "b_take2" /\ pcB' = "b_take2" /\ catOk' /\ ~manualReq')
       => LET tracked == IF newBand' >= 0 THEN newBand' ELSE currentBandIdx
              i       == getBandIndexByFrequency(toInt(freqStr'))
              applies == /\ Len(freqStr') > 0
                         /\ i \in MIN_POS..MAX_POS
                         /\ i # tracked
              calls   == { cycleOps'[k].arg : k \in SetBandCalls(cycleOps') }
          IN  /\ Cardinality(SetBandCalls(cycleOps')) = (IF applies THEN 1 ELSE 0)
              /\ calls = (IF applies THEN {i} ELSE {})
              /\ currentBandIdx' = (IF applies THEN i ELSE tracked)]_vars

\* The amplifier reports 20m, the rig is on 40m: the cycle has called
\* setBand(3) and tracks band 3.
C14_Witness ==
  /\ pcB = "b_take2"
  /\ ~manualReq /\ catOk
  /\ newBand = 5
  /\ freqStr = Freq40m
  /\ currentBandIdx = 3
  /\ \E k \in 1..Len(cycleOps) : cycleOps[k] = Op("setBand", 3)

\* C15: every publish stores the two connection flags and sets
\* connectionDirty exactly when one of them differs from the stored value,
\* with or without a request pending.
C15_ConnectionDirty ==
  [][(pcB = "b_publish" /\ pcB' = "b_published")
       => /\ sharedState'.kxpaConnected = kxpaOk
          /\ sharedState'.catConnected = catOk
          /\ sharedState'.connectionDirty
               = (\/ sharedState.connectionDirty
                  \/ sharedState.kxpaConnected # kxpaOk
                  \/ sharedState.catConnected # catOk)]_vars

\* A publish has stored a CAT link that went down while a request was
\* pending, and the flag is set.
C15_Witness ==
  /\ pcB = "b_published"
  /\ sharedState.manualChangeReq
  /\ ~catOk /\ ~sharedState.catConnected
  /\ kxpaOk /\ sharedState.kxpaConnected
  /\ sharedState.connectionDirty
  /\ ~sharedState.bandDirty

\* The step in which update() runs the case its switch selected.
UpdateStep == cat.pc = "switch" /\ cat'.pc = "idle"

\* C16: the state leaves DISCONNECTED only by the link-established event,
\* for READY_TO_CONNECT; no step of update() takes it out of DISCONNECTED or
\* issues a connect while it is DISCONNECTED.
C16_DisconnectedUntilLinkUp ==
  [][cat._socketState = "DISCONNECTED"
       => /\ cat'._socketState # "DISCONNECTED"
               => /\ ~UpdateStep
                  /\ cat'.wifi
                  /\ cat'._socketState = "READY_TO_CONNECT"
          /\ UpdateStep => cat'.sinceAttempt = cat.sinceAttempt]_vars

\* C17: a state change is one of the listed transitions, a case of update()
\* being judged on the state its switch read; an event that finds the link
\* established changes the state only from DISCONNECTED.
C17_TransitionTable ==
  [][cat'._socketState # cat._socketState
       => \/ /\ ~UpdateStep
             /\ cat'.wifi
             /\ cat._socketState = "DISCONNECTED"
             /\ cat'._socketState = "READY_TO_CONNECT"
          \/ /\ ~UpdateStep
             /\ ~cat'.wifi
             /\ cat'._socketState = "DISCONNECTED"
          \/ /\ UpdateStep
             /\ cat.sw = "READY_TO_CONNECT"
             /\ cat'._socketState = "CONNECTING"
          \/ /\ UpdateStep
             /\ cat.sw = "CONNECTING"
             /\ cat'._socketState \in {"CONNECTED", "READY_TO_CONNECT"}
          \/ /\ UpdateStep
             /\ cat.sw = "CONNECTED"
             /\ cat'._socketState = "READY_TO_CONNECT"]_vars

\* C18: the READY_TO_CONNECT case of update() connects exactly when the time
\* since the last attempt has reached the backoff delay; it then moves to
\* CONNECTING and records the attempt, and otherwise changes nothing.
C18_BackoffGate ==
  [][(UpdateStep /\ cat.sw = "READY_TO_CONNECT")
       => IF cat.elapsed >= _getBackoffDelay(cat._retryCount)
            THEN /\ cat'._socketState = "CONNECTING"
                 /\ cat'.sinceAttempt = 0
                 /\ cat'._retryCount = cat._retryCount
            ELSE /\ cat'._socketState = cat._socketState
                 /\ cat'.sinceAttempt = cat.sinceAttempt
                 /\ cat'._retryCount = cat._retryCount
                 /\ cat'.sock = cat.sock]_vars

\* After two timeouts (delay 2000 ms) a connect has just been issued.
C18_Witness ==
  /\ cat._socketState = "CONNECTING"
  /\ cat._retryCount = 2
  /\ cat.sinceAttempt = 0
  /\ cat.pc = "idle"

\* C19: the retry counter stays within 0..10; a connect timeout adds one up
\* to the cap, CONNECTING -> CONNECTED and CONNECTED -> READY_TO_CONNECT
\* reset it, and nothing else changes it.
C19_RetryCounter ==
  /\ [](cat._retryCount \in 0..CAT_MAX_RETRIES)
  /\ [][cat'._retryCount # cat._retryCount => UpdateStep]_vars
  /\ [][UpdateStep
          => cat'._retryCount =
               (CASE cat.sw = "CONNECTING" /\ cat.sock -> 0
                  [] cat.sw = "CONNECTING" /\ ~cat.sock
                       /\ cat.elapsed >= CONNECT_TIMEOUT_MS
                       -> IF cat._retryCount < CAT_MAX_RETRIES
                            THEN cat._retryCount + 1 ELSE CAT_MAX_RETRIES
                  [] cat.sw = "CONNECTED" /\ ~cat.sock -> 0
                  [] OTHER -> cat._retryCount)]_vars

\* The counter stands at the cap and another connect is under way.
C19_Witness ==
  /\ cat._retryCount = CAT_MAX_RETRIES
  /\ cat._socketState = "CONNECTING"
  /\ cat.pc = "switch"
  /\ cat.elapsed >= CONNECT_TIMEOUT_MS
  /\ ~cat.sock

\* The delays of the documented sequence, by retry count 0..10.
BackoffSequence ==
  <<500, 1000, 2000, 4000, 8000, 16000, 30000, 30000, 30000, 30000, 30000>>

\* C20: for every retry count the delay is min(500 * 2^min(n, 6), 30000),
\* i.e. the documented sequence; the constants fit 16 bits and the product
\* fits the int it is computed in.
C20_BackoffDelay ==
  /\ \A n \in 0..CAT_MAX_RETRIES :
       /\ _getBackoffDelay(n) = BackoffSequence[n + 1]
       /\ _getBackoffDelay(n) = Min(500 * (2 ^ Min(n, 6)), 30000)
       /\ INITIAL_BACKOFF_MS * (2 ^ Min(n, 6)) < 2147483647
  /\ INITIAL_BACKOFF_MS < 65536 /\ MAX_BACKOFF_MS < 65536
  /\ (cat.pc = "switch" /\ cat.sw = "READY_TO_CONNECT")
       => _getBackoffDelay(cat._retryCount) = BackoffSequence[cat._retryCount + 1]

\* update() is comparing against the capped delay of the seventh failure.
C20_Witness ==
  /\ cat.pc = "switch"
  /\ cat.sw = "READY_TO_CONNECT"
  /\ cat._retryCount = 6
  /\ cat.elapsed = MAX_BACKOFF_MS

\* C21: isConnected() is true exactly when the network link and the socket
\* both report connected at the call, whatever the state machine holds, and
\* it is false in the state right after either of the two dropped.
C21_IsConnectedLive ==
  /\ [](isConnected(cat) <=> (cat.wifi /\ cat.sock))
  /\ [][((cat.wifi /\ ~cat'.wifi) \/ (cat.sock /\ ~cat'.sock))
          => ~isConnected(cat')]_vars
  /\ [][(cat.pc = "idle" /\ cat'.pc = "wait") => (cat.wifi /\ cat.sock)]_vars

\* The state machine still holds CONNECTED after the socket dropped, and a
\* sendCommand call made then was refused.
C21_Witness ==
  /\ cat._socketState = "CONNECTED"
  /\ cat.wifi /\ ~cat.sock
  /\ cat.pc = "returned" /\ cat.sent = 0

\* C22: a sendCommand call made while isConnected() is false writes nothing
\* and returns ""; a call made while it is true writes the command once, and
\* returns "" if no byte is available when its wait ends.
C22_SendCommand ==
  /\ [][(cat.pc = "idle" /\ cat'.pc # "idle")
          => IF cat.wifi /\ cat.sock
               THEN cat'.pc = "wait" /\ cat'.sent = 1
               ELSE cat'.pc = "returned" /\ cat'.sent = 0
                    /\ cat'.result = <<>>]_vars
  /\ [][(cat.pc = "wait" /\ cat'.pc # "wait")
          => /\ cat'.pc = "returned"
             /\ cat'.sent = 1
             /\ (cat.rx = <<>> => cat'.result = <<>>)
             /\ cat'.result = cat.rx]_vars
  /\ [](cat.sent \in {0, 1})

\* A call that wrote its command and timed out with nothing to read.
C22_Witness ==
  /\ cat.pc = "returned" /\ cat.sent = 1 /\ cat.result = <<>>

\* C23: setBand(idx) with idx in the table makes at most 3 attempts; each
\* attempt writes the band-select command, the antenna-select command and
\* the band-get, in that order; it returns right after the first attempt
\* whose band-get reads idx, and after the third failed attempt it returns
\* as well (setBand is void: the caller is told nothing).
C23_SetBandRetries ==
  /\ [](kxpa.method = "setBand" /\ kxpa.idx >= 0 /\ kxpa.idx <= 10
         => LET entry == _bandTable[kxpa.idx + 1]
                sent  == <<entry.bandCmd, entry.antennaCmd, "^BN;">>
            IN  /\ kxpa.attempt <= 3
                /\ Len(kxpa.tx) = 3 * kxpa.attempt
                /\ \A i \in 1..Len(kxpa.tx) : kxpa.tx[i] = sent[((i - 1) % 3) + 1]
                /\ kxpa.pc = "attempt"
                     => /\ kxpa.attempt < 3
                        /\ kxpa.attempt > 0 => getBand(kxpa.resp) # kxpa.idx
                /\ kxpa.pc # "attempt"
                     => /\ kxpa.attempt >= 1
                        /\ getBand(kxpa.resp) = kxpa.idx \/ kxpa.attempt = 3)
  /\ [][(kxpa.pc = "attempt" /\ kxpa' # kxpa)
          => /\ kxpa'.attempt = kxpa.attempt + 1
             /\ kxpa'.idx = kxpa.idx
             /\ kxpa'.pc \in {"attempt", "returned"}]_vars

\* setBand(5) returned after three attempts none of which read band 5.
C23_Witness ==
  /\ kxpa.method = "setBand" /\ kxpa.idx = 5 /\ kxpa.pc = "returned"
  /\ kxpa.attempt = 3 /\ getBand(kxpa.resp) # 5

\* C24: setBand(idx) with idx outside 0..10 writes nothing to the port,
\* reads nothing from it and leaves the controller and the amplifier as
\* they were.
C24_SetBandOutOfRange ==
  /\ [](kxpa.method = "setBand" /\ (kxpa.idx < 0 \/ kxpa.idx > 10)
         => kxpa.tx = <<>> /\ kxpa.resp = <<>> /\ kxpa.attempt = 0
            /\ kxpa.pc # "attempt")
  /\ [][(kxpa.pc = "idle" /\ kxpa'.method = "setBand"
           /\ (kxpa'.idx < 0 \/ kxpa'.idx > 10))
          => /\ kxpa'.pc = "returned"
             /\ kxpa'.tx = <<>>
             /\ kxpa'.device = kxpa.device /\ kxpa'.ampBand = kxpa.ampBand]_vars

\* setBand(11) has returned.
C24_Witness ==
  /\ kxpa.method = "setBand" /\ kxpa.idx = 11 /\ kxpa.pc = "returned"

\* C25: getBandIndexByFrequency(f) is i when lower_i <= f <= upper_i, both
\* ends of each of the 11 bands included, and -1 when no band holds f.
C25_BandLookup ==
  kxpa.method = "getBandIndexByFrequency"
    => LET f == kxpa.freq
           Holds(i) == _bandTable[i + 1].lowerFreq <= f
                       /\ f <= _bandTable[i + 1].upperFreq
       IN  /\ \A i \in 0..10 : Holds(i) => kxpa.band = i
           /\ (\A i \in 0..10 : ~Holds(i)) => kxpa.band = -1

\* The upper end of the 20m band was looked up and band 5 returned.
C25_Witness ==
  /\ kxpa.method = "getBandIndexByFrequency" /\ kxpa.pc = "returned"
  /\ kxpa.freq = 14350000 /\ kxpa.band = 5

\* C26: the band table has exactly 11 entries, each with lower <= upper,
\* in ascending order with upper_i < lower_(i+1), so that no frequency is
\* held by two bands, and entry i carries the band-select command of
\* index i (the one setBand(i) writes first).
C26_BandTable ==
  /\ _bandCount = 11
  /\ Len(_bandTable) = 11
  /\ \A i \in 1..11 : _bandTable[i].lowerFreq <= _bandTable[i].upperFreq
  /\ \A i \in 1..10 : _bandTable[i].upperFreq < _bandTable[i + 1].lowerFreq
  /\ \A i \in 0..10 :
       _bandTable[i + 1].bandCmd
         = "^BN" \o Digits[(i \div 10) + 1] \o Digits[(i % 10) + 1] \o ";"
  /\ kxpa.method = "getBandIndexByFrequency"
       => Cardinality({ i \in 1..11 : /\ _bandTable[i].lowerFreq <= kxpa.freq
                                      /\ kxpa.freq <= _bandTable[i].upperFreq }) <= 1
  /\ (kxpa.method = "setBand" /\ kxpa.attempt > 0)
       => kxpa.tx[1] = "^BN" \o Digits[(kxpa.idx \div 10) + 1]
                             \o Digits[(kxpa.idx % 10) + 1] \o ";"

\* setBand(10) wrote the band-select command of the last entry.
C26_Witness ==
  /\ kxpa.method = "setBand" /\ kxpa.idx = 10 /\ kxpa.attempt > 0
  /\ kxpa.tx[1] = "^BN10;"

\* C27: each of getSWR, getPower, getTemperature and getVoltage returns its
\* zero sentinel for an empty response; for a non-empty response whose
\* payload is no number, or whose scaled value is out of range, it returns
\* "ERR"; otherwise it returns a value, which is not "ERR".  The scaled
\* value is the float the getter computes.
C27_TelemetryParsing ==
  kxpa.method \in {"getSWR", "getPower", "getTemperature", "getVoltage"}
    => LET m == kxpa.method
           payload == SubSeq(kxpa.resp, 4, Len(kxpa.resp))
           digits == IF payload # <<>> /\ Head(payload) \in {"-", "+"}
                       THEN Tail(payload) ELSE payload
           numeric == digits # <<>> /\ \A i \in 1..Len(digits) : IsDigit(digits[i])
           raw == toInt(payload)
           inRange == CASE m = "getSWR" -> /\ raw >= 10
                                           /\ ~Above99_9(F32(Abs(raw), 10))
                        [] m = "getPower" -> raw >= 0 /\ raw <= 1500
                        [] m = "getTemperature" -> raw >= -400 /\ raw <= 1000
                        [] m = "getVoltage" -> raw >= 0 /\ raw <= 20000
           zero == IF m \in {"getSWR", "getVoltage"}
                     THEN <<"0", ".", "0">> ELSE <<"0">>
       IN  IF kxpa.resp = <<>> THEN kxpa.text = zero
           ELSE IF ~numeric \/ ~inRange THEN kxpa.text = ERR
           ELSE kxpa.text # ERR

\* C28: getSWR accepts the raw payloads 10..999, both ends included, and
\* answers "ERR" for a raw payload below 10 or of 1000 and more.
C28_SwrBoundary ==
  (kxpa.method = "getSWR" /\ kxpa.resp # <<>>
     /\ \A i \in 4..Len(kxpa.resp) : IsDigit(kxpa.resp[i]))
    => LET raw == toInt(SubSeq(kxpa.resp, 4, Len(kxpa.resp)))
       IN  (kxpa.text # ERR) <=> (raw >= 10 /\ raw <= 999)

\* C29: getBand() returns an index only for a response that is the band-get
\* echo followed by a decimal index in 0..10, and then that index; for an
\* empty response and every other response it returns -1.
C29_GetBandValidation ==
  kxpa.method = "getBand"
    => LET r == kxpa.resp
           number == SubSeq(r, 4, Len(r))
           valid == /\ Len(r) > 3
                    /\ SubSeq(r, 1, 3) = <<"^", "B", "N">>
                    /\ \A i \in 1..Len(number) : IsDigit(number[i])
                    /\ toInt(number) >= 0 /\ toInt(number) <= 10
       IN  IF valid THEN kxpa.band = toInt(number) ELSE kxpa.band = -1

\* C30, as stated: with the amplifier identifying itself and answering
\* band-get with the band it was last set to, and rigctld reporting 14250000,
\* every polling cycle computes band 5, calls setBand(5), which writes the
\* 20m band-select, the antenna-1 select and the band-get and is verified on
\* its first attempt, and the cycle publishes band 5, "20m".
C30_SetBandEveryCycle ==
  (pcB = "b_published" /\ kxpaOk /\ catOk /\ freqStr = Freq20m)
    => /\ getBandIndexByFrequency(toInt(freqStr)) = 5
       /\ \E i \in SetBandCalls(cycleOps) : cycleOps[i].arg = 5
       /\ kxpa.method = "setBand" /\ kxpa.idx = 5
       /\ kxpa.tx = <<"^BN05;", "^AN1;", "^BN;">>
       /\ kxpa.attempt = 1 /\ kxpa.band = 5
       /\ sharedState.bandIndex = 5 /\ sharedState.bandName = "20m"

\* C30, amended: in that scenario every polling cycle computes band 5 and
\* publishes band 5, "20m"; it calls setBand(5) exactly when the band the
\* amplifier reported in the cycle's poll is not 5, and that call writes the
\* 20m band-select, the antenna-1 select and the band-get and is verified on
\* its first attempt; a cycle that polled band 5 writes no band command.
C30_EndToEnd ==
  (pcB = "b_published" /\ kxpaOk /\ catOk /\ freqStr = Freq20m)
    => /\ getBandIndexByFrequency(toInt(freqStr)) = 5
       /\ IF newBand # 5
            THEN /\ \E i \in SetBandCalls(cycleOps) : cycleOps[i].arg = 5
                 /\ kxpa.method = "setBand" /\ kxpa.idx = 5
                 /\ kxpa.tx = <<"^BN05;", "^AN1;", "^BN;">>
                 /\ kxpa.attempt = 1 /\ kxpa.band = 5
            ELSE SetBandCalls(cycleOps) = {}
       /\ sharedState.bandIndex = 5 /\ sharedState.bandName = "20m"

\* A cycle polled band 3 (40m), switched the amplifier to 20m in one attempt
\* and published band 5.
C30_Witness ==
  /\ pcB = "b_published" /\ kxpaOk /\ catOk /\ freqStr = Freq20m
  /\ newBand = 3
  /\ kxpa.tx = <<"^BN05;", "^AN1;", "^BN;">> /\ kxpa.attempt = 1
  /\ kxpa.ampBand = 5
  /\ sharedState.bandIndex = 5 /\ sharedState.bandName = "20m"

\* C34: a publish that writes the band fields leaves in sharedState the
\* band table's name for the band index it leaves there; no publish stores an
\* empty name next to a valid index.
C34_PublishedNameMatchesIndex ==
  [][(pcB = "b_publish" /\ pcB' = "b_published" /\ BandWritten)
       => sharedState'.bandName = getBandName(sharedState'.bandIndex)]_vars

\* C35: when a render pass of loop() has ended, with every acquisition of
\* the mutex in it successful and no publish since its snapshot, every dirty
\* flag of sharedState is clear, whether the pass went through the "No
\* KXPA100" path (508-517) or through the full path (519-554).
C35_RenderClearsAllFlags ==
  [][(pcU \in {"u_clearConn", "u_clearAll"} /\ pcU' = "u_take1"
        /\ "ui" \in dataMutex)
       => /\ ~sharedState'.bandDirty /\ ~sharedState'.powerDirty
          /\ ~sharedState'.tempDirty /\ ~sharedState'.swrDirty
          /\ ~sharedState'.antennaDirty /\ ~sharedState'.modeDirty
          /\ ~sharedState'.faultsDirty /\ ~sharedState'.voltageDirty
          /\ ~sharedState'.connectionDirty]_vars

\* C36: the connect attempt that follows a connect timeout is issued no
\* sooner than the backoff delay of the incremented retry count after the
\* timeout.  The timeout is taken CONNECT_TIMEOUT_MS or more after the
\* attempt that timed out, so the attempt that follows it comes at least
\* CONNECT_TIMEOUT_MS plus that delay after the earlier attempt (as far as
\* the model follows the time).
C36_BackoffAfterTimeout ==
  [][(/\ cat.pc = "switch" /\ cat.sw = "READY_TO_CONNECT"
      /\ cat'._socketState = "CONNECTING"
      /\ cat._retryCount >= 1)
       => cat.elapsed >= Min(CONNECT_TIMEOUT_MS
                               + _getBackoffDelay(cat._retryCount),
                             MaxElapsed)]_vars

\* C38: while the link stays up, READY_TO_CONNECT leads to a connect attempt
\* and no backoff delay exceeds 30000 ms; CONNECTING leads to CONNECTED or
\* back to READY_TO_CONNECT, and is left by the first update() that finds
\* the socket connected or CONNECT_TIMEOUT_MS elapsed; an accepted
\* connection that lasts leads to CONNECTED; the state is outside CONNECTING
\* again and again.
C38_SelfHealing ==
  /\ [](_getBackoffDelay(cat._retryCount) <= MAX_BACKOFF_MS)
  /\ (cat._socketState = "READY_TO_CONNECT")
       ~> (cat._socketState = "CONNECTING")
  /\ (cat._socketState = "CONNECTING")
       ~> (cat._socketState \in {"CONNECTED", "READY_TO_CONNECT"})
  /\ [][(/\ cat.pc = "switch" /\ cat'.pc = "idle" /\ cat.sw = "CONNECTING"
         /\ (cat.sock \/ cat.elapsed >= CONNECT_TIMEOUT_MS))
          => cat'._socketState \in {"CONNECTED", "READY_TO_CONNECT"}]_vars
  /\ (cat._socketState = "CONNECTING" /\ cat.sock)
       ~> (cat._socketState = "CONNECTED" \/ ~cat.sock)
  /\ []<>(cat._socketState # "CONNECTING")

\* An accepted attempt after the retry counter has reached its cap.
C38_Witness ==
  /\ cat._socketState = "CONNECTING"
  /\ cat._retryCount = CAT_MAX_RETRIES
  /\ cat.sock /\ cat.wifi

\* C37: a non-empty result of sendCommand holds no byte that was already
\* available when the call printed its command, and is one whole line of
\* the service.
C37_ResponseOfThisCall ==
  [][(cat.pc = "wait" /\ cat'.pc = "returned" /\ cat'.result # <<>>)
       => /\ cat.before = <<>>
          /\ cat'.result \in {Freq40m, Freq20m, RigError}]_vars

\* C39: sharedState.bandIndex, sharedState.manualTargetBand, the selector
\* uiBandCounter and backendTask's currentBandIdx are within MIN_POS..MAX_POS
\* in every reachable state.
C39_IndicesInRange ==
  /\ sharedState.bandIndex \in MIN_POS..MAX_POS
  /\ sharedState.manualTargetBand \in MIN_POS..MAX_POS
  /\ ui.uiBandCounter \in MIN_POS..MAX_POS
  /\ currentBandIdx \in MIN_POS..MAX_POS

\* BtnA alone has triggered with the selector at MAX_POS, and the selector
\* is still there when BtnB confirms.
C39_Witness ==
  /\ pcU = "u_takeB"
  /\ ui.manualAction /\ ~ui.uiUpdatingBand
  /\ ui.s_bandIdx = MAX_POS
  /\ ui.uiBandCounter = MAX_POS

\* C31: a task is about to take the mutex only while it does not hold it,
\* holds it only inside its critical sections and never at the start of an
\* iteration, at most one task holds it, and each of the two loops comes
\* back to the start of an iteration again and again.
C31_IterationsTerminate ==
  /\ [](/\ Cardinality(dataMutex) <= 1
        /\ "backend" \in dataMutex <=> pcB \in {"b_claim", "b_publish", "b_published"}
        /\ "ui" \in dataMutex <=> pcU \in {"u_snap", "u_post", "u_clearConn",
                                           "u_status", "u_clearAll"})
  /\ []<>(pcB = "b_take1")
  /\ []<>(pcU = "u_take1")

\* The "No KXPA100" path has taken the mutex and is about to clear
\* connectionDirty and return.
C31_Witness ==
  /\ pcU = "u_clearConn"
  /\ dataMutex = {"ui"}
  /\ pcB = "b_take2"

\* C33: if backendTask's take before the claim succeeds again and again, a
\* pending request leads to the flag being cleared; the claim that clears
\* it calls setBand with the target stored by the latest post; and a
\* publish of that cycle that finds no new request pending leaves that
\* target as the band index.
C33_OverrideLiveness ==
  /\ ([]<>(pcB = "b_claim"))
       => (sharedState.manualChangeReq ~> ~sharedState.manualChangeReq)
  /\ [][(pcB = "b_claim" /\ pcB' = "b_take2" /\ sharedState.manualChangeReq)
          => /\ ~sharedState'.manualChangeReq
             /\ target' = sharedState.manualTargetBand
             /\ { cycleOps'[i].arg : i \in SetBandCalls(cycleOps') }
                  = {sharedState.manualTargetBand}]_vars
  /\ [][(/\ pcB = "b_publish" /\ pcB' = "b_published"
         /\ manualReq /\ ~sharedState.manualChangeReq)
          => sharedState'.bandIndex = target]_vars

\* A publish of the cycle that claimed a request for 20m, with no new
\* request pending, stores band 5 after the optimistic post had been
\* overwritten.
C33_Witness ==
  /\ pcB = "b_published"
  /\ manualReq /\ target = 5
  /\ ~sharedState.manualChangeReq
  /\ sharedState.bandIndex = 5

\* What txRx returns for the three failures, and what its callers make of
\* an empty result (readme.md 1092-1215).
C40_EmptyResult ==
  /\ (~kxpa.port \/ ~kxpa.wrote \/ kxpa.consumed = 0) => kxpa.resp = <<>>
  /\ ~kxpa.port => kxpa.tx = <<>>
  /\ kxpa.resp = <<>>
       => /\ ~checkConnection(kxpa.resp)
          /\ getBand(kxpa.resp) = -1
          /\ getSWR(kxpa.resp) = <<"0", ".", "0">>
          /\ getPower(kxpa.resp) = <<"0">>
          /\ getTemperature(kxpa.resp) = <<"0">>
          /\ getVoltage(kxpa.resp) = <<"0", ".", "0">>
          /\ getAntenna(kxpa.resp) = <<"?">>
          /\ getMode(kxpa.resp) = 0
          /\ getFaultCodes(kxpa.resp) = <<"?">>
          /\ setMode(kxpa.resp) = <<>>

\* C40 as stated: a result of txRx holds no byte that was received before
\* the command was written; txRx returns "" without a port, after a short
\* write and when its read took nothing; every caller turns "" into its
\* no-answer value.
C40_NothingFromBeforeTheCommand ==
  (kxpa.method = "txRx" /\ kxpa.pc = "returned")
    => /\ (kxpa.resp # <<>> => kxpa.early = 0)
       /\ C40_EmptyResult

\* C40, amended: a result of txRx holds no byte that was buffered when
\* txRx was called; the rest as stated.
C40_NothingFromBeforeTheCall ==
  (kxpa.method = "txRx" /\ kxpa.pc = "returned")
    => /\ (kxpa.resp # <<>> => kxpa.atCall = 0)
       /\ C40_EmptyResult

\* txRx has discarded bytes, written its command and returned an answer.
C40_Witness ==
  /\ kxpa.method = "txRx" /\ kxpa.pc = "returned"
  /\ kxpa.drained /\ kxpa.wrote
  /\ kxpa.resp # <<>>

\* C32: while setup() is between its first and its last call on kxpa,
\* backendTask does not exist; once it exists, every step that changes the
\* controller or the CAT client is a step of backendTask in its exchanges
\* and leaves loop()'s variables alone; so the two tasks are never both
\* inside an exchange.
C32_ExchangesOnOneTask ==
  /\ [](pcU \in SetupPositions => pcB = "b_none")
  /\ [](~(pcU \in SetupPositions /\ pcB \in {"e_poll", "e_set"}))
  /\ [][(kxpa' # kxpa \/ cat' # cat)
          => IF pcB = "b_none"
               THEN pcU \in SetupPositions /\ UNCHANGED backendVars
               ELSE /\ pcB \in {"b_claim", "e_poll", "e_set"}
                    /\ UNCHANGED uiVars]_vars

\* backendTask is inside setBand while loop() is in a render pass.
C32_Witness ==
  /\ pcB = "e_set" /\ kxpa.pc = "attempt"
  /\ pcU = "u_noKxpa"

====
